---- MODULE Spec2Model ----
(***************************************************************************)
(* Model of the map-v2 viewers: the embedded KDBush index and the          *)
(* MapComponent resolver (src/src/MyGeoJsonMap.jsx), the MapCenterTracker  *)
(* of TeraaMap with its debounce / throttle scheduling                     *)
(* (src/src/TeraaMap.jsx) and the MyMap interval scan                      *)
(* (src/unnamed/part_000, src/src/MyGeoJsonMap.jsx).                       *)
(*                                                                         *)
(* JavaScript arrays are functions over 0..n-1 where the code does index   *)
(* arithmetic on them (KDBush), sequences elsewhere.  null / undefined is  *)
(* the empty tuple None, a present value v is Some(v) = <<v>>.             *)
(***************************************************************************)
EXTENDS Integers, Sequences, FiniteSets, TLC

VARIABLES
    kd,     \* a KDBush instance under test: the points, the index, the last range call
    mc,     \* MapComponent (MyGeoJsonMap.jsx, second module)
    tm,     \* TeraaMap with its MapCenterTracker
    mm,     \* MyMap and its interval scan
    cp,     \* one call of closestPointOnSegment under test
    pp,     \* one call of isPointInPolygon under test
    tt,     \* a function wrapped by throttle under test
    le,     \* one call of loadExternalScript under test
    sp      \* the search panel of TeraaMap

vars == <<kd, mc, tm, mm, cp, pp, tt, le, sp>>

None == <<>>
Some(v) == <<v>>
IsSome(o) == o /= <<>>
Val(o) == o[1]

Min2(a, b) == IF a <= b THEN a ELSE b
Max2(a, b) == IF a >= b THEN a ELSE b

RECURSIVE SetToSeq(_)
SetToSeq(S) ==
    IF S = {} THEN <<>>
    ELSE LET m == CHOOSE e \in S : \A o \in S : e <= o
         IN  <<m>> \o SetToSeq(S \ {m})

(***************************************************************************)
(* Bounds of the model.                                                    *)
(***************************************************************************)
MaxLen == 3         \* longest enumerated point list handed to KDBush
MaxCoord == 1       \* enumerated point lists and rectangles use 0..MaxCoord
MaxSeed == 2        \* number of generated long point lists per length

(***************************************************************************)
(* KDBush (MyGeoJsonMap.jsx 427-493).                                      *)
(***************************************************************************)
nodeSize == 64

\* this.coords[2 * this.ids[i] + axis]; an index outside the array reads
\* undefined, and every comparison with undefined is false.
InIds(ids, i) == i \in DOMAIN ids
CoordAt(ids, coords, i, axis) == coords[2 * ids[i] + axis]
CoordLt(ids, coords, i, axis, t) == InIds(ids, i) /\ CoordAt(ids, coords, i, axis) < t
CoordGt(ids, coords, i, axis, t) == InIds(ids, i) /\ CoordAt(ids, coords, i, axis) > t

swapDup(ids, i, j) == [ids EXCEPT ![i] = ids[j]]

swap(ids, i, j) == [ids EXCEPT ![i] = ids[j], ![j] = ids[i]]

RECURSIVE SkipLt(_, _, _, _, _)
SkipLt(ids, coords, i, axis, t) ==
    IF CoordLt(ids, coords, i, axis, t) THEN SkipLt(ids, coords, i + 1, axis, t) ELSE i

RECURSIVE SkipGt(_, _, _, _, _)
SkipGt(ids, coords, j, axis, t) ==
    IF CoordGt(ids, coords, j, axis, t) THEN SkipGt(ids, coords, j - 1, axis, t) ELSE j

\* while (i < j) { swap(i++, j--); while (c[i] < t) i++; while (c[j] > t) j--; }
RECURSIVE selectInner(_, _, _, _, _, _)
selectInner(ids, coords, i, j, axis, t) ==
    IF i < j
    THEN LET ids1 == swap(ids, i, j)
             i1 == SkipLt(ids1, coords, i + 1, axis, t)
             j1 == SkipGt(ids1, coords, j - 1, axis, t)
         IN  selectInner(ids1, coords, i1, j1, axis, t)
    ELSE [ids |-> ids, j |-> j]

RECURSIVE select(_, _, _, _, _, _)
select(ids, coords, left, right, k, axis) ==
    IF right > left
    THEN LET t == CoordAt(ids, coords, k, axis)
             ids1 == swap(ids, left, k)
             ids2 == IF CoordAt(ids1, coords, right, axis) > t
                     THEN swap(ids1, left, right) ELSE ids1
             r == selectInner(ids2, coords, left, right, axis, t)
             atLeft == CoordAt(r.ids, coords, left, axis) = t
             j == IF atLeft THEN r.j ELSE r.j + 1
             ids3 == IF atLeft THEN swap(r.ids, left, j) ELSE swap(r.ids, j, right)
             left1 == IF j <= k THEN j + 1 ELSE left
             right1 == IF k <= j THEN j - 1 ELSE right
         IN  select(ids3, coords, left1, right1, k, axis)
    ELSE ids

RECURSIVE sort(_, _, _, _, _)
sort(ids, coords, left, right, axis) ==
    IF right - left <= nodeSize THEN ids
    ELSE LET median == left + ((right - left) \div 2)
             ids1 == select(ids, coords, left, right, median, axis)
             ids2 == sort(ids1, coords, left, median - 1, 1 - axis)
         IN  sort(ids2, coords, median + 1, right, 1 - axis)

\* constructor + init(): ids[i] = i, coords[2i] = x, coords[2i+1] = y, then sort.
KDBush(points) ==
    LET n == Len(points)
        ids0 == [i \in 0..(n - 1) |-> i]
        coords == [c \in 0..(2 * n - 1) |->
                      IF c % 2 = 0 THEN points[(c \div 2) + 1].x
                                   ELSE points[(c \div 2) + 1].y]
    IN  [ids |-> sort(ids0, coords, 0, n - 1, 0), coords |-> coords]

InRectHalfOpen(x, y, minX, minY, maxX, maxY) ==
    x >= minX /\ x < maxX /\ y >= minY /\ y < maxY

InRect(x, y, minX, minY, maxX, maxY) ==
    x >= minX /\ x <= maxX /\ y >= minY /\ y <= maxY

\* for (i = 0; i < ids.length; i++) { id = ids[i]; if (inside) results.push(id) }
range(index, minX, minY, maxX, maxY) ==
    LET n == Cardinality(DOMAIN index.ids)
        inOrder == [i \in 1..n |-> index.ids[i - 1]]
        Hit(id) == InRect(index.coords[2 * id], index.coords[2 * id + 1],
                          minX, minY, maxX, maxY)
    IN  SelectSeq(inOrder, Hit)

(***************************************************************************)
(* The point lists KDBush is exercised on: every list of at most MaxLen    *)
(* points over the small grid, and generated lists longer than nodeSize    *)
(* (one level of select) and longer than 2 * nodeSize (two levels), with   *)
(* many duplicate coordinates.                                             *)
(***************************************************************************)
Grid == 0..MaxCoord
GridPoints == [x : Grid, y : Grid]
SmallLists == UNION {[1..n -> GridPoints] : n \in 0..MaxLen}

LongPoint(i, seed) == [x |-> (i * (seed + 2) + (i * i) \div 3) % 7,
                       y |-> (i * i + seed * i) % 5]
LongList(n, seed) == [i \in 1..n |-> LongPoint(i, seed)]
LongLists == {LongList(nodeSize + 2 + s, s) : s \in 1..MaxSeed}
             \cup {LongList(2 * nodeSize + 5 + s, s) : s \in 1..MaxSeed}

KDIdle == [points |-> <<>>, index |-> None, query |-> None, result |-> None]

MCIdle == [mounted |-> FALSE]
TMIdle == [mounted |-> FALSE]
MMIdle == [mounted |-> FALSE]
CPIdle == [called |-> FALSE]
PPIdle == [called |-> FALSE]
TTIdle == [called |-> FALSE]
LSIdle == [called |-> FALSE]
SPIdle == [called |-> FALSE]

InitKD ==
    /\ kd \in [points : SmallLists \cup LongLists, index : {None},
               query : {None}, result : {None}]
    /\ mc = MCIdle
    /\ tm = TMIdle
    /\ mm = MMIdle
    /\ cp = CPIdle
    /\ pp = PPIdle
    /\ tt = TTIdle
    /\ le = LSIdle
    /\ sp = SPIdle

\* new KDBush(points)
KDConstruct ==
    /\ kd.index = None
    /\ kd' = [kd EXCEPT !.index = Some(KDBush(kd.points))]
    /\ UNCHANGED <<mc, tm, mm, cp, pp, tt, le, sp>>

Rects == [minX : Grid, minY : Grid, maxX : Grid, maxY : Grid]
LongRects == {[minX |-> 1, minY |-> 1, maxX |-> 4, maxY |-> 3],
              [minX |-> 0, minY |-> 0, maxX |-> 6, maxY |-> 4],
              [minX |-> 6, minY |-> 4, maxX |-> 6, maxY |-> 4],
              [minX |-> 7, minY |-> 0, maxX |-> 9, maxY |-> 9]}

\* index.range(minX, minY, maxX, maxY), once per instance under test
KDRange ==
    /\ IsSome(kd.index)
    /\ kd.query = None
    /\ \E r \in Rects \cup LongRects :
          kd' = [kd EXCEPT !.query = Some(r),
                           !.result = Some(range(Val(kd.index),
                                                 r.minX, r.minY, r.maxX, r.maxY))]
    /\ UNCHANGED <<mc, tm, mm, cp, pp, tt, le, sp>>

NextKD == KDConstruct \/ KDRange

SpecKD == InitKD /\ [][NextKD]_vars

(***************************************************************************)
(* GeoJSON features.  A coordinate is the array [lng, lat]; an array with  *)
(* fewer than two entries is a malformed coordinate.  name is "" when the  *)
(* feature carries none of the name properties the resolvers read; type is *)
(* "none" when the feature has no geometry object.                         *)
(***************************************************************************)
PointF(name, c) == [type |-> "Point", name |-> name, coordinates |-> c]
LineF(name, cs) == [type |-> "LineString", name |-> name, coordinates |-> cs]
MultiLineF(name, ls) == [type |-> "MultiLineString", name |-> name, coordinates |-> ls]
PolyF(name, rings) == [type |-> "Polygon", name |-> name, coordinates |-> rings]
MultiPolyF(name, ps) == [type |-> "MultiPolygon", name |-> name, coordinates |-> ps]
NoGeomF(name) == [type |-> "none", name |-> name, coordinates |-> <<>>]
\* a geometry type none of the viewers has a branch for
OtherF(name) == [type |-> "GeometryCollection", name |-> name, coordinates |-> <<>>]

Square(x0, y0, x1, y1) == <<<<x0, y0>>, <<x1, y0>>, <<x1, y1>>, <<x0, y1>>, <<x0, y0>>>>

RECURSIVE Flatten(_)
Flatten(ss) == IF ss = <<>> THEN <<>> ELSE Head(ss) \o Flatten(Tail(ss))

\* squared planar distance between two [lng, lat] coordinates, in grid units
Dist2(p, q) == (p[1] - q[1]) * (p[1] - q[1]) + (p[2] - q[2]) * (p[2] - q[2])

\* Squared distance from p to the segment a-b as the fraction n / d (d > 0):
\* the projection parameter t = dot / len2 is clamped to [0, 1].
SegDist2(p, a, b) ==
    LET dx == b[1] - a[1]
        dy == b[2] - a[2]
        len2 == dx * dx + dy * dy
        dot == (p[1] - a[1]) * dx + (p[2] - a[2]) * dy
    IN  IF len2 = 0 THEN [n |-> Dist2(p, a), d |-> 1]
        ELSE IF dot > len2 THEN [n |-> Dist2(p, b), d |-> 1]
        ELSE IF dot > 0 THEN [n |-> Dist2(p, a) * len2 - dot * dot, d |-> len2]
        ELSE [n |-> Dist2(p, a), d |-> 1]

\* n1 / d1 < n2 / d2, compared by whole parts and then by remainders so that
\* no product leaves the integer range
RatLt(r1, r2) ==
    \/ r1.n \div r1.d < r2.n \div r2.d
    \/ /\ r1.n \div r1.d = r2.n \div r2.d
       /\ (r1.n % r1.d) * r2.d < (r2.n % r2.d) * r1.d
RatLe(r1, r2) == ~RatLt(r2, r1)
RatMin(r1, r2) == IF RatLe(r1, r2) THEN r1 ELSE r2

\* minimum over the segments of a polyline; None for a line without segments
RECURSIVE LineDist2From(_, _, _)
LineDist2From(p, line, i) ==
    IF i >= Len(line) THEN None
    ELSE LET here == SegDist2(p, line[i], line[i + 1])
             rest == LineDist2From(p, line, i + 1)
         IN  IF rest = None THEN Some(here) ELSE Some(RatMin(here, Val(rest)))

\* Ray casting over a ring of [x, y] pairs: the ray test
\* (yi > y) != (yj > y) && x < (xj - xi) * (y - yi) / (yj - yi) + xi,
\* the division cleared by multiplying with (yj - yi) and its sign.
RayCrossesAtOrAbove(x, y, xi, yi, xj, yj) ==
    /\ (yi >= y) /= (yj > y)
    /\ yj /= yi
    /\ IF yj - yi > 0
       THEN (x - xi) * (yj - yi) < (xj - xi) * (y - yi)
       ELSE (x - xi) * (yj - yi) > (xj - xi) * (y - yi)

RayCrosses(x, y, xi, yi, xj, yj) ==
    /\ (yi > y) /= (yj > y)
    /\ IF yj - yi > 0
       THEN (x - xi) * (yj - yi) < (xj - xi) * (y - yi)
       ELSE (x - xi) * (yj - yi) > (xj - xi) * (y - yi)

RingCrossings(x, y, ring) ==
    LET n == Len(ring)
        J(i) == IF i = 1 THEN n ELSE i - 1
    IN  Cardinality({i \in 1..n :
            RayCrosses(x, y, ring[i][1], ring[i][2], ring[J(i)][1], ring[J(i)][2])})

(***************************************************************************)
(* MapComponent (MyGeoJsonMap.jsx 497-).  One grid unit is                 *)
(* MAX_DISTANCE_TO_POINT_KM / 111.32 degrees, so the point search radius   *)
(* is 1 unit and the line search radius 20 units; one time unit is 50 ms.  *)
(***************************************************************************)
searchRadiusDegreesForPoints == 1
searchRadiusDegreesForGeometries == 20
DEBOUNCE_DELAY_MS == 3
\* turf.distance is a great-circle distance with 111.195 km per degree while
\* the radius is converted with 111.32: (111.32 / 111.195)^2 = KmScaleNum / KmScaleDen
KmScaleNum == 451
KmScaleDen == 450

\* distance <= MAX_DISTANCE_TO_POINT_KM, on the squared distance in grid units
WithinPointKm(d2) ==
    d2 <= (searchRadiusDegreesForPoints * searchRadiusDegreesForPoints * KmScaleNum)
              \div KmScaleDen

\* distance <= MAX_DISTANCE_TO_LINE_OR_EDGE_KM, on a squared distance n / d
WithinLineKm(r) ==
    r.n <= (searchRadiusDegreesForGeometries * searchRadiusDegreesForGeometries
                * KmScaleNum * r.d) \div KmScaleDen

\* the vertices the load effect turns into Point features, per geometry type
VertexCoords(f) ==
    CASE f.type = "LineString" -> f.coordinates
      [] f.type = "Polygon" ->
            IF Len(f.coordinates) >= 1 THEN f.coordinates[1] ELSE <<>>
      [] f.type = "MultiPolygon" ->
            Flatten([k \in 1..Len(f.coordinates) |->
                        IF Len(f.coordinates[k]) >= 1 THEN f.coordinates[k][1] ELSE <<>>])
      [] f.type = "Point" -> <<f.coordinates>>
      [] OTHER -> <<>>

ProcessFeature(f) ==
    LET cs == VertexCoords(f)
    IN  [k \in 1..Len(cs) |->
            [type |-> "Point", name |-> f.name, originalType |-> f.type,
             coordinates |-> cs[k]]]

\* newProcessedPointsFeatures of the load effect
ProcessFeatures(data) == Flatten([k \in 1..Len(data) |-> ProcessFeature(data[k])])

\* originalFeature.geometry.type on a feature without geometry raises a TypeError
LoadThrows(data) == \E k \in 1..Len(data) : data[k].type = "none"

\* the index build effect's test of a processed feature
IndexablePoint(f) == f.type = "Point" /\ Len(f.coordinates) >= 2

\* positions (0-based, as forEach's index) of the features that are indexed
IndexedPositions(features) ==
    {k \in 0..(Len(features) - 1) : IndexablePoint(features[k + 1])}

pointsToIndex(features) ==
    LET pos == SetToSeq(IndexedPositions(features))
    IN  [k \in 1..Len(pos) |->
            [x |-> features[pos[k] + 1].coordinates[1],
             y |-> features[pos[k] + 1].coordinates[2],
             featureIndex |-> pos[k]]]

\* featureMap.set(index, feature): keyed by the feature's position in
\* processedPointsData.features
featureMapOf(features) ==
    [k \in IndexedPositions(features) |-> features[k + 1]]

\* { index, featureMap } handed to setSpatialIndex; None when no point is valid
SpatialIndexOf(pts, fm) ==
    IF Len(pts) > 0 THEN Some([index |-> KDBush(pts), featureMap |-> fm]) ELSE None

BuildSpatialIndex(features) ==
    SpatialIndexOf(pointsToIndex(features), featureMapOf(features))

featureMapGet(fm, k) == IF k \in DOMAIN fm THEN Some(fm[k]) ELSE None

\* feature.properties?.Name || feature.properties?.name || placeholder
featureNameOrPlaceholder(f) == IF f.name = "" THEN "unnamed" ELSE f.name

\* one candidate of stage 1 (728-738): fo is featureMap.get(originalIndex)
stage1Step(q, fo, acc) ==
    IF fo = None THEN acc
    ELSE IF Val(fo).type /= "Point" THEN acc
    ELSE IF /\ WithinPointKm(Dist2(q, Val(fo).coordinates))
            /\ (acc.min = None \/ Dist2(q, Val(fo).coordinates) < Val(acc.min))
         THEN [name |-> Some(featureNameOrPlaceholder(Val(fo))),
               min |-> Some(Dist2(q, Val(fo).coordinates))]
         ELSE acc

\* Stage 1 (727-742): the nearest indexed Point within MAX_DISTANCE_TO_POINT_KM;
\* a strictly smaller distance replaces the current best.
RECURSIVE stage1(_, _, _, _)
stage1(fm, q, cands, acc) ==
    IF cands = <<>> THEN acc
    ELSE stage1(fm, q, Tail(cands), stage1Step(q, featureMapGet(fm, Head(cands)), acc))

\* turf.booleanPointInPolygon: inside the exterior ring of one of the polygons
\* and inside none of its holes
InsideRings(q, rings) ==
    /\ Len(rings) >= 1
    /\ RingCrossings(q[1], q[2], rings[1]) % 2 = 1
    /\ \A h \in 2..Len(rings) : RingCrossings(q[1], q[2], rings[h]) % 2 = 0

turfBooleanPointInPolygon(q, f) ==
    IF f.type = "Polygon" THEN InsideRings(q, f.coordinates)
    ELSE \E k \in 1..Len(f.coordinates) : InsideRings(q, f.coordinates[k])

RECURSIVE ShoelaceFrom(_, _)
ShoelaceFrom(ring, i) ==
    IF i >= Len(ring) THEN 0
    ELSE ring[i][1] * ring[i + 1][2] - ring[i + 1][1] * ring[i][2]
         + ShoelaceFrom(ring, i + 1)

Abs(v) == IF v < 0 THEN 0 - v ELSE v

RECURSIVE SumSeq(_)
SumSeq(ns) == IF ns = <<>> THEN 0 ELSE Head(ns) + SumSeq(Tail(ns))

RingsArea2(rings) ==
    IF Len(rings) = 0 THEN 0
    ELSE Abs(ShoelaceFrom(rings[1], 1))
         - SumSeq([h \in 1..(Len(rings) - 1) |-> Abs(ShoelaceFrom(rings[h + 1], 1))])

\* turf.area (twice the planar area, in grid units)
turfArea2(f) ==
    IF f.type = "Polygon" THEN RingsArea2(f.coordinates)
    ELSE SumSeq([k \in 1..Len(f.coordinates) |-> RingsArea2(f.coordinates[k])])

\* turf.pointToLineDistance on a LineString or MultiLineString (squared, n / d)
turfPointToLineDistance2(q, f) ==
    IF f.type = "LineString" THEN LineDist2From(q, f.coordinates, 1)
    ELSE LET ds == [k \in 1..Len(f.coordinates) |->
                        LineDist2From(q, f.coordinates[k], 1)]
             some == {k \in 1..Len(ds) : ds[k] /= None}
         IN  IF some = {} THEN None
             ELSE Some(Val(ds[CHOOSE k \in some :
                                \A o \in some : RatLe(Val(ds[k]), Val(ds[o]))]))

\* the exterior ring whose edge distance is measured (816-823)
polygonExterior(f) ==
    IF f.type = "Polygon" /\ Len(f.coordinates) >= 1 THEN Some(f.coordinates[1])
    ELSE IF f.type = "MultiPolygon" /\ Len(f.coordinates) >= 1
            /\ Len(f.coordinates[1]) >= 1 THEN Some(f.coordinates[1][1])
    ELSE None

IsPolygonal(f) == f.type = "Polygon" \/ f.type = "MultiPolygon"
IsLinear(f) == f.type = "LineString" \/ f.type = "MultiLineString"

\* 779-796: a containing polygon of smaller positive area becomes the best
bestContained(acc, name, contains, area2) ==
    IF contains /\ area2 > 0 /\ (acc.minArea = None \/ area2 < Val(acc.minArea))
    THEN [acc EXCEPT !.poly = Some(name), !.minArea = Some(area2)]
    ELSE acc

\* 806-810, 827-831: a line or polygon edge within the threshold and strictly
\* nearer than the best so far becomes the best
nearestLineOrEdge(acc, name, dist) ==
    IF /\ dist /= None
       /\ WithinLineKm(Val(dist))
       /\ (acc.minDist = None \/ RatLt(Val(dist), Val(acc.minDist)))
    THEN [acc EXCEPT !.line = Some(name), !.minDist = dist]
    ELSE acc

edgeDistance2(q, ext) == IF ext = None THEN None ELSE LineDist2From(q, Val(ext), 1)

\* one candidate of stage 2 (771-837)
stage2Step(q, f, acc) ==
    nearestLineOrEdge(
        nearestLineOrEdge(
            bestContained(acc, featureNameOrPlaceholder(f),
                          IsPolygonal(f) /\ turfBooleanPointInPolygon(q, f),
                          IF IsPolygonal(f) THEN turfArea2(f) ELSE 0),
            featureNameOrPlaceholder(f),
            IF IsLinear(f) THEN turfPointToLineDistance2(q, f) ELSE None),
        featureNameOrPlaceholder(f),
        IF IsPolygonal(f) THEN edgeDistance2(q, polygonExterior(f)) ELSE None)

stage2Get(q, fo, acc) == IF fo = None THEN acc ELSE stage2Step(q, Val(fo), acc)

RECURSIVE stage2(_, _, _, _)
stage2(fm, q, cands, acc) ==
    IF cands = <<>> THEN acc
    ELSE stage2(fm, q, Tail(cands), stage2Get(q, featureMapGet(fm, Head(cands)), acc))

rangeAround(index, lat, lng, r) == range(index, lng - r, lat - r, lng + r, lat + r)

stage1Of(si, lat, lng) ==
    stage1(si.featureMap, <<lng, lat>>,
           rangeAround(si.index, lat, lng, searchRadiusDegreesForPoints),
           [name |-> None, min |-> None])

stage2Of(si, lat, lng) ==
    stage2(si.featureMap, <<lng, lat>>,
           rangeAround(si.index, lat, lng, searchRadiusDegreesForGeometries),
           [poly |-> None, minArea |-> None, line |-> None, minDist |-> None])

\* 744-749 and 840-848: a stage 1 name returns at once; then a containing
\* polygon, then the nearest line or edge
finalDetectedName(s1, s2) ==
    IF s1.name /= None THEN s1.name
    ELSE IF s2.poly /= None THEN s2.poly
    ELSE s2.line

depsReady(snap) ==
    /\ snap.geojsonData /= None /\ snap.processedPointsData /= None
    /\ snap.spatialIndex /= None /\ snap.isTurfLoaded

\* checkPointInGeoJSON(lat, lng) of the closure that captured the state snap
checkPointInGeoJSON(snap, lat, lng) ==
    IF ~depsReady(snap) THEN None
    ELSE finalDetectedName(stage1Of(Val(snap.spatialIndex), lat, lng),
                           stage2Of(Val(snap.spatialIndex), lat, lng))

(***************************************************************************)
(* MapComponent: state, effects and events.                                *)
(***************************************************************************)
\* the state a render's callbacks close over (the deps of checkPointInGeoJSON)
MCSnapshot(m) ==
    [geojsonData |-> m.geojsonData, processedPointsData |-> m.processedPointsData,
     spatialIndex |-> m.spatialIndex, isTurfLoaded |-> m.isTurfLoaded]

initialMapCenter == [lat |-> 0, lng |-> 0]

\* datasets /d_wgs84.json may hold
MCPolyLine(first) ==
    LET A == PolyF("A", <<Square(0, 0, 40, 40)>>)
        B == LineF("B", <<<<20, 21>>, <<60, 21>>>>)
    IN  IF first = "A" THEN <<A, B>> ELSE <<B, A>>
MCPolyFarLine(first) ==
    LET A == PolyF("A", <<Square(0, 0, 40, 40)>>)
        B == LineF("B", <<<<-10, 25>>, <<50, 25>>>>)
    IN  IF first = "A" THEN <<A, B>> ELSE <<B, A>>
MCPointLine(first) ==
    LET C == PointF("C", <<5, 6>>)
        D == LineF("D", <<<<5, 4>>, <<9, 4>>>>)
    IN  IF first = "C" THEN <<C, D>> ELSE <<D, C>>
MCPointLineVertex == <<PointF("C", <<5, 6>>), LineF("D", <<<<5, 5>>, <<9, 5>>>>)>>
MCPoints == <<PointF("P", <<5, 5>>), PointF("Q", <<9, 9>>)>>
MCSkipFirst == <<PointF("bad", <<7>>), PointF("P", <<5, 5>>), PointF("Q", <<9, 9>>)>>
MCSkipMiddle == <<PointF("P", <<5, 5>>), LineF("L", <<<<7>>, <<9, 9>>>>)>>
MCNoGeometry == <<PointF("P", <<5, 5>>), NoGeomF("G")>>
MCOnlyBad == <<PointF("bad", <<7>>)>>
MCOtherType == <<OtherF("U"), PointF("P", <<5, 5>>)>>
MCUnnamed == <<PointF("", <<5, 5>>)>>
MCMultiLine == <<MultiLineF("W", << <<<<5, 5>>, <<9, 5>>>> >>), PointF("Q", <<9, 9>>)>>

MCDatasets ==
    {MCPolyLine("A"), MCPolyLine("B"), MCPolyFarLine("A"), MCPolyFarLine("B"),
     MCPointLine("C"), MCPointLine("D"), MCPointLineVertex,
     MCPoints, MCSkipFirst, MCSkipMiddle, MCNoGeometry, MCOnlyBad, MCOtherType,
     MCMultiLine, MCUnnamed, <<>>}

\* map centers the user can move to
MCCenters ==
    {[lat |-> 20, lng |-> 20], [lat |-> 5, lng |-> 5], [lat |-> 9, lng |-> 9]}

\* bookkeeping of a debounced function, kept beside its timer: the arguments
\* of the latest call, the time since it (capped), the runs of the wrapped
\* function since it, and the last run
DbIdle == [lastCall |-> None, since |-> 0, runs |-> 0, lastRun |-> None]
DbCalled(args) == [lastCall |-> Some(args), since |-> 0, runs |-> 0, lastRun |-> None]
DbTicked(g, delay) == [g EXCEPT !.since = Min2(g.since + 1, delay + 1)]
DbRan(g, args) ==
    [g EXCEPT !.runs = Min2(g.runs + 1, 2),
              !.lastRun = Some([args |-> args, since |-> g.since, lastCall |-> g.lastCall])]

MCStart ==
    [mounted |-> TRUE, fetched |-> FALSE,
     geojsonData |-> None, processedPointsData |-> None,
     isMapApiLoaded |-> FALSE, isTurfLoaded |-> FALSE, spatialIndex |-> None,
     mapType |-> "roadmap", mapRefCurrent |-> FALSE,
     initDeps |-> [api |-> FALSE, ref |-> FALSE, mapType |-> "roadmap"],
     initRun |-> FALSE, hasCleanup |-> FALSE,
     map |-> FALSE, gmap |-> FALSE, listener |-> FALSE,
     center |-> initialMapCenter, currentCoords |-> initialMapCenter,
     debounceTimeoutRef |-> None, geoJsonLocationName |-> None,
     effectsPending |-> FALSE, lastCheck |-> None, db |-> DbIdle,
     cb |-> [geojsonData |-> None, processedPointsData |-> None,
             spatialIndex |-> None, isTurfLoaded |-> FALSE]]

InitMC ==
    /\ mc = MCStart
    /\ kd = KDIdle
    /\ tm = TMIdle
    /\ mm = MMIdle
    /\ cp = CPIdle
    /\ pp = PPIdle
    /\ tt = TTIdle
    /\ le = LSIdle
    /\ sp = SPIdle

\* the dependency array of the map initialization effect (977) as a render
\* evaluates it: mapRef.current is still what the commit before left there
InitDeps(m) == [api |-> m.isMapApiLoaded, ref |-> m.mapRefCurrent, mapType |-> m.mapType]

\* A render and its commit: the initialization effect is scheduled when its
\* dependencies changed, the map container is in the document once the
\* libraries are loaded (1190), the passive effects are pending.
Rendered(m) ==
    [m EXCEPT !.initDeps = InitDeps(m),
              !.initRun = @ \/ (InitDeps(m) /= m.initDeps),
              !.mapRefCurrent = m.isMapApiLoaded /\ m.isTurfLoaded,
              !.effectsPending = TRUE]

\* fetch('/d_wgs84.json') resolves (616-694): setGeojsonData, then the vertex
\* extraction, then setProcessedPointsData unless the extraction threw
MCLoadGeoJSON ==
    /\ mc.mounted /\ ~mc.fetched /\ ~mc.effectsPending
    /\ \E data \in MCDatasets :
          mc' = Rendered([mc EXCEPT !.fetched = TRUE,
                                    !.geojsonData = Some(data),
                                    !.processedPointsData =
                                        IF LoadThrows(data) THEN None
                                        ELSE Some(ProcessFeatures(data))])
    /\ UNCHANGED <<kd, tm, mm, cp, pp, tt, le, sp>>

\* the fetch fails or answers with an HTTP error (611-613, 695-697)
MCLoadFails ==
    /\ mc.mounted /\ ~mc.fetched
    /\ mc' = [mc EXCEPT !.fetched = TRUE]
    /\ UNCHANGED <<kd, tm, mm, cp, pp, tt, le, sp>>

\* window.initMap / pollForGlobal finds window.google: setIsMapApiLoaded(true)
MCApiLoaded ==
    /\ mc.mounted /\ ~mc.isMapApiLoaded /\ ~mc.effectsPending
    /\ mc' = Rendered([mc EXCEPT !.isMapApiLoaded = TRUE])
    /\ UNCHANGED <<kd, tm, mm, cp, pp, tt, le, sp>>

\* the turf script is requested once the Google script has settled (582-595);
\* pollForGlobal finds window.turf: setIsTurfLoaded(true)
MCTurfLoaded ==
    /\ mc.mounted /\ mc.isMapApiLoaded /\ ~mc.isTurfLoaded /\ ~mc.effectsPending
    /\ mc' = Rendered([mc EXCEPT !.isTurfLoaded = TRUE])
    /\ UNCHANGED <<kd, tm, mm, cp, pp, tt, le, sp>>

\* handleMapTypeToggle (1093-1099)
MCToggleMapType ==
    /\ mc.mounted /\ mc.mapRefCurrent /\ ~mc.effectsPending
    /\ mc' = Rendered([mc EXCEPT !.mapType =
                          IF @ = "roadmap" THEN "satellite" ELSE "roadmap"])
    /\ UNCHANGED <<kd, tm, mm, cp, pp, tt, le, sp>>

\* updateLocationDisplay through updateLocationDisplayRef.current (855-859)
MCShown(m, lat, lng, found) ==
    [m EXCEPT !.geoJsonLocationName = found,
              !.lastCheck = Some([lat |-> lat, lng |-> lng, name |-> found,
                                  snap |-> m.cb])]

MCUpdated(m, lat, lng) == MCShown(m, lat, lng, checkPointInGeoJSON(m.cb, lat, lng))

\* the refs take the callbacks of the last render (874-877)
refsEffect(m) == [m EXCEPT !.cb = MCSnapshot(m)]

\* the index build effect's guard (883)
IndexEffectBuilds(m) ==
    /\ m.processedPointsData /= None
    /\ m.isTurfLoaded
    /\ m.spatialIndex = None

\* the index build effect (881-916): setSpatialIndex unless no point is valid
indexEffect(m) ==
    IF IndexEffectBuilds(m)
    THEN [m EXCEPT !.spatialIndex = BuildSpatialIndex(Val(m.processedPointsData))]
    ELSE m

\* the cleanup the map initialization effect returned (965-973)
initCleanup(m) ==
    IF m.hasCleanup
    THEN [m EXCEPT !.listener = FALSE, !.debounceTimeoutRef = None, !.map = FALSE]
    ELSE m

\* the body of the map initialization effect (920-976); create is its
\* condition as the closure of the render saw it
initBody(m, create) ==
    IF create
    THEN [MCUpdated(m, initialMapCenter.lat, initialMapCenter.lng)
             EXCEPT !.gmap = TRUE, !.map = TRUE, !.listener = TRUE,
                    !.center = initialMapCenter,
                    !.currentCoords = initialMapCenter,
                    !.hasCleanup = TRUE]
    ELSE [m EXCEPT !.hasCleanup = FALSE]

initEffect(m) ==
    IF m.initRun
    THEN [initBody(initCleanup(m), m.isMapApiLoaded /\ m.mapRefCurrent /\ ~m.map)
             EXCEPT !.initRun = FALSE]
    ELSE m

\* a state that an effect set makes React render again
AfterEffects(m, n) ==
    IF \/ n.spatialIndex /= m.spatialIndex
       \/ n.map /= m.map
       \/ n.geoJsonLocationName /= m.geoJsonLocationName
    THEN Rendered(n)
    ELSE [n EXCEPT !.effectsPending = FALSE]

\* The passive effects of the last commit, in source order: the refs, the
\* index build, the map initialization.
MCFlushEffects ==
    /\ mc.mounted /\ mc.effectsPending
    /\ mc' = AfterEffects(mc, initEffect(indexEffect(refsEffect(mc))))
    /\ UNCHANGED <<kd, tm, mm, cp, pp, tt, le, sp>>

\* an armed timeout: rem time units to go, then args are delivered
Timeout(delay, args) == Some([rem |-> delay, args |-> args])

\* debouncedUpdateLocationDisplay (862-871): clear the pending timeout, start a
\* new one of DEBOUNCE_DELAY_MS that carries the arguments of this call
debouncedUpdateLocationDisplay(timeoutRef, args) == Timeout(DEBOUNCE_DELAY_MS, args)

\* center_changed listener (951-963)
centerChanged(m, c) ==
    Rendered([m EXCEPT !.center = c, !.currentCoords = c,
                       !.debounceTimeoutRef = debouncedUpdateLocationDisplay(@, c),
                       !.db = DbCalled(c)])

\* the center of the map changes: the user pans it, or the data effect
\* (988-1056) fits the bounds of the loaded data; the listener, when there is
\* one, hears it
MCCenterChanged ==
    /\ mc.mounted /\ mc.gmap
    /\ \E c \in MCCenters :
          /\ c /= mc.center
          /\ mc' = IF mc.listener THEN centerChanged(mc, c)
                   ELSE [mc EXCEPT !.center = c]
    /\ UNCHANGED <<kd, tm, mm, cp, pp, tt, le, sp>>

\* 50 ms pass; a timeout that is due runs before more time passes
MCTick ==
    /\ mc.mounted
    /\ mc.debounceTimeoutRef /= None
    /\ Val(mc.debounceTimeoutRef).rem > 0
    /\ mc' = [mc EXCEPT !.debounceTimeoutRef =
                            Some([Val(@) EXCEPT !.rem = @ - 1]),
                        !.db = DbTicked(@, DEBOUNCE_DELAY_MS)]
    /\ UNCHANGED <<kd, tm, mm, cp, pp, tt, le, sp>>

\* setGeoJsonLocationName renders again when the name changed
debounceFired(m, n) ==
    IF n.geoJsonLocationName /= m.geoJsonLocationName THEN Rendered(n) ELSE n

\* the timeout of debouncedUpdateLocationDisplay fires (866-870)
MCDebounceFire ==
    /\ mc.mounted
    /\ mc.debounceTimeoutRef /= None
    /\ Val(mc.debounceTimeoutRef).rem = 0
    /\ mc' = debounceFired(mc,
                [MCUpdated(mc, Val(mc.debounceTimeoutRef).args.lat,
                               Val(mc.debounceTimeoutRef).args.lng)
                    EXCEPT !.debounceTimeoutRef = None,
                           !.db = DbRan(mc.db, Val(mc.debounceTimeoutRef).args)])
    /\ UNCHANGED <<kd, tm, mm, cp, pp, tt, le, sp>>

NextMC ==
    \/ MCLoadGeoJSON \/ MCLoadFails \/ MCApiLoaded \/ MCTurfLoaded
    \/ MCToggleMapType \/ MCFlushEffects
    \/ MCCenterChanged \/ MCTick \/ MCDebounceFire

SpecMC == InitMC /\ [][NextMC]_vars

(***************************************************************************)
(* TeraaMap (TeraaMap.jsx).  One grid unit is the searchTolerance of       *)
(* checkGeoJSONLocation, 0.0001 degrees; one time unit is 50 ms.  Strings  *)
(* built with toFixed(8) are exact on this grid, so the coordinates string *)
(* of a locationInfo is kept as the pair it prints.                        *)
(***************************************************************************)
searchTolerance == 1
\* the default tolerance of isPointNearLine, 0.001 degrees
tolerance == 10
\* checkGeoJSONLocationDebounced: 150 ms; setCenterCoordinatesDebounced: 50 ms
checkDelay == 3
coordinatesDelay == 1
\* throttledNominatimCall: 1000 ms
nominatimLimit == 20
\* calculateDistance: decimetres per grid unit of latitude (R * pi / 180 * 0.0001)
\* and of longitude at the latitude of defaultCenter (cos 22.4 degrees)
DmPerUnitLat == 111
DmPerUnitLng == 103
\* distance < 0.01 km, in decimetres
pointRadiusDm == 100

\* debounce(func, delay) (13-20): the returned function called with args
\* clears the armed timeout and arms a new one
debounce(timeout, delay, args) == Timeout(delay, args)

\* every call takes the first-call branch
runsAtOnceAlways(th) == TRUE

\* throttle(func, limit) (26-46).  th.lastRan is the time since lastRan was
\* taken (None while it is undefined), th.inThrottle the armed timeout.
\* ran carries the arguments func was applied to, if it was.
runsAtOnce(th) == th.lastRan = None

\* a throttle that runs the first call of a time frame and forgets the others
throttledLeadingOnly(th, limit, args) ==
    IF runsAtOnce(th)
    THEN [lastRan |-> Some(0), inThrottle |-> th.inThrottle, ran |-> Some(args)]
    ELSE [lastRan |-> th.lastRan, inThrottle |-> th.inThrottle, ran |-> None]

throttled(th, limit, args) ==
    IF runsAtOnce(th)
    THEN [lastRan |-> Some(0), inThrottle |-> th.inThrottle, ran |-> Some(args)]
    ELSE [lastRan |-> th.lastRan,
          inThrottle |-> Timeout(Max2(limit - Val(th.lastRan), 0), args),
          ran |-> None]

\* the timeout armed by the throttled function fires (36-41)
throttleTimeout(th, limit) ==
    IF th.lastRan /= None /\ Val(th.lastRan) >= limit
    THEN [lastRan |-> Some(0), inThrottle |-> None,
          ran |-> Some(Val(th.inThrottle).args)]
    ELSE [lastRan |-> th.lastRan, inThrottle |-> None, ran |-> None]

\* calculateDistance (64-79), squared, in decimetres
calculateDistance2(lat1, lon1, lat2, lon2) ==
    ((lat2 - lat1) * DmPerUnitLat) * ((lat2 - lat1) * DmPerUnitLat)
    + ((lon2 - lon1) * DmPerUnitLng) * ((lon2 - lon1) * DmPerUnitLng)

\* isPointInPolygon (104-118): point is [lat, lng], polygon a list of [lat, lng]
isPointInPolygon(point, polygon) ==
    RingCrossings(point[1], point[2], polygon) % 2 = 1

\* distanceToLineSegment (145-167), squared, as n / d
distanceToLineSegment2(px, py, x1, y1, x2, y2) ==
    SegDist2(<<px, py>>, <<x1, y1>>, <<x2, y2>>)

NearerThan(r, tol) == r.n < tol * tol * r.d

\* isPointNearLine (125-140): some segment at a distance < tolerance
isPointNearLine(point, lineCoords) ==
    \E i \in 1..(Len(lineCoords) - 1) :
        NearerThan(distanceToLineSegment2(point[1], point[2],
                                          lineCoords[i][2], lineCoords[i][1],
                                          lineCoords[i + 1][2], lineCoords[i + 1][1]),
                   tolerance)

\* ([lng, lat]) => [lat, lng] over a ring
LatLngRing(ring) == [k \in 1..Len(ring) |-> <<ring[k][2], ring[k][1]>>]

\* every coordinate of a feature, as Leaflet's layer bounds see them
AllCoords(f) ==
    CASE f.type = "Point" -> <<f.coordinates>>
      [] f.type = "LineString" -> f.coordinates
      [] f.type = "MultiLineString" -> Flatten(f.coordinates)
      [] f.type = "Polygon" -> Flatten(f.coordinates)
      [] f.type = "MultiPolygon" -> Flatten(Flatten(f.coordinates))
      [] OTHER -> <<>>

MinOf(ns) == CHOOSE v \in {ns[k] : k \in DOMAIN ns} : \A k \in DOMAIN ns : v <= ns[k]
MaxOf(ns) == CHOOSE v \in {ns[k] : k \in DOMAIN ns} : \A k \in DOMAIN ns : v >= ns[k]

\* the item of one feature (184-203); None when the bounds are not valid
BoundsItem(f, cs) ==
    IF cs = <<>> THEN None
    ELSE Some([minX |-> MinOf([k \in 1..Len(cs) |-> cs[k][1]]),
               minY |-> MinOf([k \in 1..Len(cs) |-> cs[k][2]]),
               maxX |-> MaxOf([k \in 1..Len(cs) |-> cs[k][1]]),
               maxY |-> MaxOf([k \in 1..Len(cs) |-> cs[k][2]]),
               feature |-> f])

\* geojson.features.map(...).filter(Boolean)
RECURSIVE rbushItems(_)
rbushItems(features) ==
    IF features = <<>> THEN <<>>
    ELSE LET it == BoundsItem(Head(features), AllCoords(Head(features)))
         IN  (IF it = None THEN <<>> ELSE <<Val(it)>>) \o rbushItems(Tail(features))

\* a load that loses the last item
RBushLoadPartial(items) == SubSeq(items, 1, Len(items) - 1)

\* the loaded tree: up to nine items stay in one leaf, in load order
RBushLoad(items) == items

Intersects(b, it) ==
    /\ b.minX <= it.maxX /\ b.minY <= it.maxY
    /\ b.maxX >= it.minX /\ b.maxY >= it.minY

\* tree.search(bbox): the items whose box intersects bbox, in leaf order
RBushSearch(tree, b) == SelectSeq(tree, LAMBDA it : Intersects(b, it))

\* the index build effect (181-210)
buildRBush(geojson) ==
    IF geojson /= None THEN Some(RBushLoad(rbushItems(Val(geojson)))) ELSE None

\* geometry.coordinates[0].map(...) (245) and polygon[0].map(...) (253) raise a
\* TypeError when the polygon has no ring: .map is read from undefined
NoRing(polygon) == Len(polygon) = 0

\* the polygons of a MultiPolygon in order (252-257): the number of the first
\* one that ends the loop, by containing the point or by raising; 0 when the
\* loop runs to its end
RECURSIVE multiPolygonStop(_, _, _, _)
multiPolygonStop(polygons, lat, lng, k) ==
    IF k > Len(polygons) THEN 0
    ELSE IF NoRing(polygons[k]) THEN k
    ELSE IF isPointInPolygon(<<lat, lng>>, LatLngRing(polygons[k][1])) THEN k
    ELSE multiPolygonStop(polygons, lat, lng, k + 1)

\* the switch raises on this candidate
featureThrows(f, lat, lng) ==
    CASE f.type = "Polygon" -> NoRing(f.coordinates)
      [] f.type = "MultiPolygon" ->
            /\ multiPolygonStop(f.coordinates, lat, lng, 1) /= 0
            /\ NoRing(f.coordinates[multiPolygonStop(f.coordinates, lat, lng, 1)])
      [] OTHER -> FALSE

\* the switch of checkGeoJSONLocation (238-281) on one candidate
\* a candidate of the index is taken as a match
featureMatchesByBox(f, lat, lng) ==
    f.type \in {"Polygon", "MultiPolygon", "LineString", "MultiLineString", "Point"}

featureMatches(f, lat, lng) ==
    CASE f.type = "Polygon" ->
            /\ ~NoRing(f.coordinates)
            /\ isPointInPolygon(<<lat, lng>>, LatLngRing(f.coordinates[1]))
      [] f.type = "MultiPolygon" ->
            /\ multiPolygonStop(f.coordinates, lat, lng, 1) /= 0
            /\ ~NoRing(f.coordinates[multiPolygonStop(f.coordinates, lat, lng, 1)])
      [] f.type = "LineString" -> isPointNearLine(<<lat, lng>>, f.coordinates)
      [] f.type = "MultiLineString" ->
            \E k \in 1..Len(f.coordinates) :
                isPointNearLine(<<lat, lng>>, f.coordinates[k])
      [] f.type = "Point" ->
            calculateDistance2(lat, lng, f.coordinates[2], f.coordinates[1])
                < pointRadiusDm * pointRadiusDm
      [] OTHER -> FALSE

\* the loop over potentialFeatures (233-283): the first candidate that has a
\* name and matches is returned; a candidate that raises ends the loop
\* without a name
RECURSIVE firstMatch(_, _, _)
firstMatch(cands, lat, lng) ==
    IF cands = <<>> THEN None
    ELSE IF Head(cands).feature.type = "none" \/ Head(cands).feature.name = ""
         THEN firstMatch(Tail(cands), lat, lng)
    ELSE IF featureThrows(Head(cands).feature, lat, lng) THEN None
    ELSE IF featureMatches(Head(cands).feature, lat, lng)
         THEN Some(Head(cands).feature.name)
    ELSE firstMatch(Tail(cands), lat, lng)

\* the loop over potentialFeatures raises before it returns
RECURSIVE firstThrows(_, _, _)
firstThrows(cands, lat, lng) ==
    IF cands = <<>> THEN FALSE
    ELSE IF Head(cands).feature.type = "none" \/ Head(cands).feature.name = ""
         THEN firstThrows(Tail(cands), lat, lng)
    ELSE IF featureThrows(Head(cands).feature, lat, lng) THEN TRUE
    ELSE IF featureMatches(Head(cands).feature, lat, lng) THEN FALSE
    ELSE firstThrows(Tail(cands), lat, lng)

searchBounds(lat, lng) ==
    [minX |-> lng - searchTolerance, minY |-> lat - searchTolerance,
     maxX |-> lng + searchTolerance, maxY |-> lat + searchTolerance]

\* checkGeoJSONLocation(lat, lng) (213-284) against rbushRef.current
checkGeoJSONLocation(rbushRef, lat, lng) ==
    IF rbushRef = None THEN None
    ELSE firstMatch(RBushSearch(Val(rbushRef), searchBounds(lat, lng)), lat, lng)

\* without the guard of line 214 the search on a null index raises
checkGeoJSONLocationUnguarded(rbushRef, lat, lng) ==
    \/ rbushRef = None
    \/ firstThrows(RBushSearch(Val(rbushRef), searchBounds(lat, lng)), lat, lng)

\* checkGeoJSONLocation(lat, lng) raises instead of returning
checkGeoJSONLocationThrows(rbushRef, lat, lng) ==
    /\ rbushRef /= None
    /\ firstThrows(RBushSearch(Val(rbushRef), searchBounds(lat, lng)), lat, lng)

(***************************************************************************)
(* TeraaMap: state, effects, events and timers.                            *)
(***************************************************************************)
MaxMoves == 2       \* move events of one session

\* the grid position standing for defaultCenter
defaultCenter == [lat |-> 50, lng |-> 50]

\* datasets /result_more_simplified.geojson may hold
TMPolyLine(first) ==
    LET A == PolyF("A", <<Square(0, 0, 40, 40)>>)
        B == LineF("B", <<<<10, 21>>, <<30, 21>>>>)
    IN  IF first = "A" THEN <<A, B>> ELSE <<B, A>>
TMPointLine(first) ==
    LET C == PointF("C", <<5, 5>>)
        D == LineF("D", <<<<5, 6>>, <<9, 6>>>>)
    IN  IF first = "C" THEN <<C, D>> ELSE <<D, C>>
TMLines(first) ==
    LET F == LineF("F", <<<<0, 0>>, <<7, 14>>>>)
        N == LineF("N", <<<<5, 6>>, <<9, 6>>>>)
    IN  IF first = "F" THEN <<F, N>> ELSE <<N, F>>

TMNoGeometry == <<NoGeomF("G"), PointF("C", <<5, 5>>)>>
TMUnnamed == <<LineF("", <<<<5, 6>>, <<9, 6>>>>)>>
\* a MultiPolygon whose first polygon has no ring, and a line under it
TMEmptyPolygon ==
    <<MultiPolyF("M", << <<>>, <<Square(0, 0, 40, 40)>> >>),
      LineF("N", <<<<5, 6>>, <<9, 6>>>>)>>

\* a line that passes the center (20, 20) at 10 units, the center inside its box
TMDiagonal == <<LineF("E", <<<<0, 10>>, <<30, 50>>>>)>>

\* a line 5 units north of the center (20, 20)
TMNearLine == <<LineF("H", <<<<15, 25>>, <<25, 25>>>>)>>

\* a polygon and a smaller one inside it, both around the center (20, 20)
TMNested ==
    <<PolyF("A", <<Square(0, 0, 40, 40)>>), PolyF("S", <<Square(10, 10, 30, 30)>>)>>

\* a line whose box holds the center (20, 20) while the line is not near it,
\* listed before a point on that center
TMBoxOnly == <<LineF("E", <<<<0, 20>>, <<30, 60>>>>), PointF("C", <<20, 20>>)>>

TMDatasets ==
    {TMPolyLine("A"), TMPolyLine("B"), TMPointLine("C"), TMPointLine("D"),
     TMLines("F"), TMLines("N"), TMDiagonal, TMNearLine, TMNoGeometry,
     TMEmptyPolygon, TMUnnamed, TMNested, TMBoxOnly}

\* map centers the user can move to
TMCenters == {[lat |-> 20, lng |-> 20], [lat |-> 5, lng |-> 5], defaultCenter}

\* bookkeeping of the throttled function: the time since func last ran
\* (capped) and the time that lay between its last two runs
ThIdle == [since |-> None, gap |-> None]
ThRan(g) == [since |-> Some(0), gap |-> IF g.since = None THEN g.gap ELSE g.since]
ThTicked(g, limit) ==
    IF g.since = None THEN g ELSE [g EXCEPT !.since = Some(Min2(Val(@) + 1, limit))]

TMStart ==
    [mounted |-> TRUE, loading |-> TRUE, geojson |-> None,
     effectsPending |-> FALSE, listening |-> FALSE, rbushRef |-> None,
     center |-> defaultCenter, moving |-> FALSE, moves |-> 0,
     centerCoordinates |-> defaultCenter, locationInfo |-> None,
     checkTimeout |-> None, coordinatesTimeout |-> None,
     th |-> [lastRan |-> None, inThrottle |-> None], fetches |-> {},
     checkDb |-> DbIdle, coordinatesDb |-> DbIdle, thDb |-> ThIdle,
     lastResolve |-> None]

InitTM ==
    /\ tm = TMStart
    /\ kd = KDIdle
    /\ mc = MCIdle
    /\ mm = MMIdle
    /\ cp = CPIdle
    /\ pp = PPIdle
    /\ tt = TTIdle
    /\ le = LSIdle
    /\ sp = SPIdle

\* fetch('/result_more_simplified.geojson') resolves (524-536): setGeojson and
\* setLoading(false); the map and its MapCenterTracker render
TMLoadGeoJSON ==
    /\ tm.mounted /\ tm.loading
    /\ \E data \in TMDatasets :
          tm' = [tm EXCEPT !.loading = FALSE, !.geojson = Some(data),
                           !.effectsPending = TRUE]
    /\ UNCHANGED <<kd, mc, mm, cp, pp, tt, le, sp>>

\* the fetch fails (537-542): setLoading(false) with geojson still null
TMLoadFails ==
    /\ tm.mounted /\ tm.loading
    /\ tm' = [tm EXCEPT !.loading = FALSE, !.effectsPending = TRUE]
    /\ UNCHANGED <<kd, mc, mm, cp, pp, tt, le, sp>>

\* the effects of MapCenterTracker's mount: the index build (181-210), then
\* useMapEvents attaches the handlers
TMFlushEffects ==
    /\ tm.mounted /\ tm.effectsPending
    /\ tm' = [tm EXCEPT !.effectsPending = FALSE, !.listening = TRUE,
                        !.rbushRef = buildRBush(tm.geojson)]
    /\ UNCHANGED <<kd, mc, mm, cp, pp, tt, le, sp>>

\* one call of checkGeoJSONLocation, remembered with what it saw
Resolved(m, by, lat, lng) ==
    Some([by |-> by, lat |-> lat, lng |-> lng,
          name |-> checkGeoJSONLocation(m.rbushRef, lat, lng),
          threw |-> checkGeoJSONLocationThrows(m.rbushRef, lat, lng),
          rbush |-> m.rbushRef, geojson |-> m.geojson])

\* setLocationInfo for a local feature (291-295, 344-348)
LocalInfo(name, lat, lng) ==
    Some([name |-> name, lat |-> lat, lng |-> lng, isFromGeoJSON |-> TRUE])

\* setLocationInfo of throttledNominatimCall (313-327): display_name, or the
\* coordinates when it is missing or the request failed
NominatimInfo(hasName, lat, lng) ==
    Some([name |-> IF hasName THEN "display_name" ELSE "coordinates",
          lat |-> lat, lng |-> lng, isFromGeoJSON |-> FALSE])

\* move handler (354-364): both debounced functions are called
move(m, c) ==
    [m EXCEPT !.center = c, !.moving = TRUE, !.moves = @ + 1,
              !.coordinatesTimeout = debounce(@, coordinatesDelay, c),
              !.checkTimeout = debounce(@, checkDelay, c),
              !.coordinatesDb = DbCalled(c),
              !.checkDb = DbCalled(c)]

TMMove ==
    /\ tm.mounted /\ tm.listening /\ tm.moves < MaxMoves
    /\ \E c \in TMCenters : tm' = move(tm, c)
    /\ UNCHANGED <<kd, mc, mm, cp, pp, tt, le, sp>>

\* a moveend that goes through the debounced functions as move does
moveendDebounced(m) == [move(m, m.center) EXCEPT !.moving = FALSE, !.moves = m.moves]

\* the throttled function was called: its new state, and the request it sent
Throttled(m, t) ==
    [m EXCEPT !.th = [lastRan |-> t.lastRan, inThrottle |-> t.inThrottle],
              !.fetches = IF t.ran /= None THEN @ \cup {Val(t.ran)} ELSE @,
              !.thDb = IF t.ran /= None THEN ThRan(@) ELSE @]

\* moveend handler (333-353) once checkGeoJSONLocation has answered geojsonName
moveendWith(m, geojsonName) ==
    IF geojsonName /= None
    THEN [m EXCEPT !.locationInfo =
                       LocalInfo(Val(geojsonName), m.center.lat, m.center.lng)]
    ELSE Throttled(m, throttled(m.th, nominatimLimit, m.center))

\* the handler ends at line 341 when checkGeoJSONLocation raises
moveend(m) ==
    [(IF checkGeoJSONLocationThrows(m.rbushRef, m.center.lat, m.center.lng) THEN m
      ELSE moveendWith(m, checkGeoJSONLocation(m.rbushRef, m.center.lat, m.center.lng)))
        EXCEPT !.moving = FALSE,
               !.centerCoordinates = m.center,
               !.lastResolve = Resolved(m, "moveend", m.center.lat, m.center.lng)]

TMMoveEnd ==
    /\ tm.mounted /\ tm.listening /\ tm.moving
    /\ tm' = moveend(tm)
    /\ UNCHANGED <<kd, mc, mm, cp, pp, tt, le, sp>>

TimeoutDue(t) == t /= None /\ Val(t).rem = 0
Aged(t) == IF t = None THEN None ELSE Some([Val(t) EXCEPT !.rem = @ - 1])

\* 50 ms pass; a timeout that is due runs before more time passes
TMTick ==
    /\ tm.mounted
    /\ ~TimeoutDue(tm.checkTimeout) /\ ~TimeoutDue(tm.coordinatesTimeout)
    /\ ~TimeoutDue(tm.th.inThrottle)
    /\ \/ tm.checkTimeout /= None \/ tm.coordinatesTimeout /= None
       \/ tm.th.inThrottle /= None
       \/ (tm.th.lastRan /= None /\ Val(tm.th.lastRan) < nominatimLimit)
    /\ tm' = [tm EXCEPT
                !.checkTimeout = Aged(@),
                !.coordinatesTimeout = Aged(@),
                !.th = [lastRan |-> IF @.lastRan = None THEN None
                                    ELSE Some(Min2(Val(@.lastRan) + 1, nominatimLimit)),
                        inThrottle |-> Aged(@.inThrottle)],
                !.checkDb = IF tm.checkTimeout /= None
                            THEN DbTicked(@, checkDelay) ELSE @,
                !.coordinatesDb = IF tm.coordinatesTimeout /= None
                                  THEN DbTicked(@, coordinatesDelay) ELSE @,
                !.thDb = ThTicked(@, nominatimLimit)]
    /\ UNCHANGED <<kd, mc, mm, cp, pp, tt, le, sp>>

\* the timeout of setCenterCoordinatesDebounced fires (302-304)
TMCoordinatesFire ==
    /\ tm.mounted /\ TimeoutDue(tm.coordinatesTimeout)
    /\ tm' = [tm EXCEPT !.coordinatesTimeout = None,
                        !.centerCoordinates = Val(tm.coordinatesTimeout).args,
                        !.coordinatesDb = DbRan(@, Val(tm.coordinatesTimeout).args)]
    /\ UNCHANGED <<kd, mc, mm, cp, pp, tt, le, sp>>

\* the debounced check (288-297) once checkGeoJSONLocation has answered
checkedWith(m, geojsonName, lat, lng) ==
    IF geojsonName /= None
    THEN [m EXCEPT !.locationInfo = LocalInfo(Val(geojsonName), lat, lng)]
    ELSE m

\* the timeout of checkGeoJSONLocationDebounced fires; when
\* checkGeoJSONLocation raises the callback ends there, as it does without a name
checkFired(m, args) ==
    [checkedWith(m, checkGeoJSONLocation(m.rbushRef, args.lat, args.lng),
                 args.lat, args.lng)
        EXCEPT !.checkTimeout = None,
               !.checkDb = DbRan(@, args),
               !.lastResolve = Resolved(m, "move", args.lat, args.lng)]

TMCheckFire ==
    /\ tm.mounted /\ TimeoutDue(tm.checkTimeout)
    /\ tm' = checkFired(tm, Val(tm.checkTimeout).args)
    /\ UNCHANGED <<kd, mc, mm, cp, pp, tt, le, sp>>

\* the timeout armed by throttledNominatimCall fires
TMThrottleFire ==
    /\ tm.mounted /\ TimeoutDue(tm.th.inThrottle)
    /\ tm' = Throttled(tm, throttleTimeout(tm.th, nominatimLimit))
    /\ UNCHANGED <<kd, mc, mm, cp, pp, tt, le, sp>>

\* a Nominatim request settles (312-328): with a display_name, or without one
\* or with an error
TMNominatimSettles ==
    /\ tm.mounted
    /\ \E r \in tm.fetches, hasName \in BOOLEAN :
          tm' = [tm EXCEPT !.fetches = @ \ {r},
                           !.locationInfo = NominatimInfo(hasName, r.lat, r.lng)]
    /\ UNCHANGED <<kd, mc, mm, cp, pp, tt, le, sp>>

NextTM ==
    \/ TMLoadGeoJSON \/ TMLoadFails \/ TMFlushEffects
    \/ TMMove \/ TMMoveEnd \/ TMTick
    \/ TMCoordinatesFire \/ TMCheckFire \/ TMThrottleFire \/ TMNominatimSettles

SpecTM == InitTM /\ [][NextTM]_vars

(***************************************************************************)
(* MyMap (unnamed/part_000, and MyGeoJsonMap.jsx 1-406 with the search     *)
(* box).  One grid unit is one metre.  A feature of map.data is known by   *)
(* its position in the features array the interval callback closes over.   *)
(***************************************************************************)
\* dist < 20 (metres)
scanRadius == 20

\* the first segment i (0-based) of path whose closest point is nearer than
\* 20 m to p (part_000 61-67, MyGeoJsonMap.jsx 83-89)
RECURSIVE nearSegment(_, _, _)
nearSegment(p, path, i) ==
    IF i + 1 >= Len(path) THEN None
    ELSE IF NearerThan(SegDist2(p, path[i + 1], path[i + 2]), scanRadius) THEN Some(i)
    ELSE nearSegment(p, path, i + 1)

\* The loop over features: the first LineString with a near segment ends the
\* callback; getType() on a feature without geometry throws.
RECURSIVE scan(_, _, _)
scan(features, p, k) ==
    IF k > Len(features) THEN [kind |-> "none"]
    ELSE IF features[k].type = "none" THEN [kind |-> "threw"]
    ELSE IF features[k].type = "LineString"
            /\ nearSegment(p, features[k].coordinates, 0) /= None
         THEN [kind |-> "found", feature |-> k,
               segment |-> Val(nearSegment(p, features[k].coordinates, 0))]
    ELSE scan(features, p, k + 1)

\* feature.getProperty('Name'): undefined when the feature has none
getPropertyName(f) == IF f.name = "" THEN None ELSE Some(f.name)

\* squared length of the part of segment a-b before the closest point to p
AlongSegment2(p, a, b) ==
    LET dx == b[1] - a[1]
        dy == b[2] - a[2]
        len2 == dx * dx + dy * dy
        dot == (p[1] - a[1]) * dx + (p[2] - a[2]) * dy
    IN  IF len2 = 0 \/ dot < 0 THEN [n |-> 0, d |-> 1]
        ELSE IF dot > len2 THEN [n |-> len2, d |-> 1]
        ELSE [n |-> dot * dot, d |-> len2]

\* totalDistance (MyGeoJsonMap.jsx 95-103) as the list of its terms: the
\* squared lengths of the segments before segment i, then the squared length
\* along segment i up to the closest point
totalDistance(p, path, i) ==
    [whole |-> [j \in 1..i |-> Dist2(path[j], path[j + 1])],
     part |-> AlongSegment2(p, path[i + 1], path[i + 2])]

\* searchResults as the interval callback captured it when the map loaded
capturedSearchResults == {}

MMLines(first) ==
    LET F == LineF("F", <<<<0, 0>>, <<7, 14>>>>)
        N == LineF("N", <<<<5, 6>>, <<9, 6>>>>)
    IN  IF first = "F" THEN <<F, N>> ELSE <<N, F>>
MMBend == <<LineF("K", <<<<0, 40>>, <<30, 40>>, <<30, 80>>>>), PointF("P", <<5, 5>>)>>
MMUnnamed == <<LineF("", <<<<5, 6>>, <<9, 6>>>>), LineF("N", <<<<5, 7>>, <<9, 7>>>>)>>
MMNoGeometry == <<LineF("N", <<<<5, 6>>, <<9, 6>>>>), NoGeomF("G"),
                  LineF("K", <<<<0, 40>>, <<30, 40>>>>)>>

\* a line that passes the center (5, 5) at 20 m
MMAtRadius == <<LineF("E", <<<<0, 25>>, <<10, 25>>>>)>>

\* datasets /data.json may hold
MMDatasets ==
    {MMLines("F"), MMLines("N"), MMBend, MMUnnamed, MMNoGeometry, MMAtRadius, <<>>}

\* map centers the user can pan to
MMCenters == {[lat |-> 5, lng |-> 5], [lat |-> 50, lng |-> 30], [lat |-> 90, lng |-> 90]}

\* the styles the code gives a feature: setStyle (64-69), and the overrides
\* of the interval callback (116-120) and of handleSearch (162-166)
StyleBlue == [strokeColor |-> "blue", strokeWeight |-> 4]
StyleNear == [strokeColor |-> "red", strokeWeight |-> 5]
StyleSearch == [strokeColor |-> "red", strokeWeight |-> 6]

\* afterTick: the interval callback was the last thing that ran
MMStart(variant) ==
    [mounted |-> TRUE, variant |-> variant, features |-> None,
     center |-> [lat |-> 90, lng |-> 90], currentCoords |-> [lat |-> 0, lng |-> 0],
     lineName |-> None, distanceFromStart |-> None,
     highlightedFeatureRef |-> None, style |-> <<>>, lastScan |-> None,
     searchQuery |-> <<>>, searchResults |-> <<>>, afterTick |-> FALSE]

InitMM ==
    /\ mm \in {MMStart("basic"), MMStart("search")}
    /\ kd = KDIdle
    /\ mc = MCIdle
    /\ tm = TMIdle
    /\ cp = CPIdle
    /\ pp = PPIdle
    /\ tt = TTIdle
    /\ le = LSIdle
    /\ sp = SPIdle

\* fetch('/data.json') resolves: addGeoJson, setStyle (every line blue), the
\* features array, setInterval
MMLoadData ==
    /\ mm.mounted /\ mm.features = None
    /\ \E data \in MMDatasets :
          mm' = [mm EXCEPT !.features = Some(data),
                           !.style = [k \in 1..Len(data) |-> StyleBlue],
                           !.afterTick = FALSE]
    /\ UNCHANGED <<kd, mc, tm, cp, pp, tt, le, sp>>

\* the user pans the map
MMPan ==
    /\ mm.mounted
    /\ \E c \in MMCenters :
          c /= mm.center /\ mm' = [mm EXCEPT !.center = c, !.afterTick = FALSE]
    /\ UNCHANGED <<kd, mc, tm, cp, pp, tt, le, sp>>

\* overrideStyle back to blue for the highlighted feature, where the guard holds
Unhighlight(m) ==
    IF m.highlightedFeatureRef /= None
       /\ Val(m.highlightedFeatureRef) \notin capturedSearchResults
    THEN [m.style EXCEPT ![Val(m.highlightedFeatureRef)] = StyleBlue]
    ELSE m.style

\* dist < 20 on segment i of feature k (part_000 67-92, MyGeoJsonMap.jsx 89-127)
scanFound(m, k, i) ==
    [m EXCEPT
        !.lineName = getPropertyName(Val(m.features)[k]),
        !.distanceFromStart =
            IF m.variant = "search"
            THEN Some(totalDistance(<<m.center.lng, m.center.lat>>,
                                    Val(m.features)[k].coordinates, i))
            ELSE @,
        !.style = IF m.highlightedFeatureRef /= Some(k) /\ k \notin capturedSearchResults
                  THEN [Unhighlight(m) EXCEPT ![k] = StyleNear] ELSE @,
        !.highlightedFeatureRef =
            IF m.highlightedFeatureRef /= Some(k) /\ k \notin capturedSearchResults
            THEN Some(k) ELSE @]

\* no line is near (part_000 97-106, MyGeoJsonMap.jsx 132-143)
scanNotFound(m) ==
    [m EXCEPT
        !.lineName = None,
        !.distanceFromStart = None,
        !.style = Unhighlight(m),
        !.highlightedFeatureRef =
            IF @ /= None /\ Val(@) \notin capturedSearchResults THEN None ELSE @]

scanned(m, r) ==
    [(IF r.kind = "found" THEN scanFound(m, r.feature, r.segment)
      ELSE IF r.kind = "none" THEN scanNotFound(m)
      ELSE m)
        EXCEPT !.currentCoords = m.center,
               !.lastScan = Some([center |-> m.center, result |-> r]),
               !.afterTick = TRUE]

\* one run of the setInterval callback
MMInterval ==
    /\ mm.mounted /\ mm.features /= None
    /\ mm' = scanned(mm, scan(Val(mm.features), <<mm.center.lng, mm.center.lat>>, 1))
    /\ UNCHANGED <<kd, mc, tm, cp, pp, tt, le, sp>>

\* Strings of the search box as sequences of characters; a feature name of
\* the datasets is one character.
Chars(name) == IF name = "" THEN <<>> ELSE <<name>>

toLowerCase(cs) ==
    [i \in 1..Len(cs) |->
        CASE cs[i] = "N" -> "n" [] cs[i] = "K" -> "k" [] cs[i] = "F" -> "f"
          [] cs[i] = "E" -> "e" [] cs[i] = "P" -> "p" [] cs[i] = "G" -> "g"
          [] OTHER -> cs[i]]

RECURSIVE trim(_)
trim(cs) ==
    IF cs = <<>> THEN cs
    ELSE IF Head(cs) = " " THEN trim(Tail(cs))
    ELSE IF cs[Len(cs)] = " " THEN trim(SubSeq(cs, 1, Len(cs) - 1))
    ELSE cs

\* String.prototype.includes
includes(cs, q) ==
    \E i \in 1..(Len(cs) - Len(q) + 1) : SubSeq(cs, i, i + Len(q) - 1) = q

\* what the user may type into the search box
MMQueries == {<<>>, <<" ">>, <<"n">>, <<"K", " ">>, <<"e">>, <<"n", "k">>}

\* onChange of the search input (264)
MMSetQuery ==
    /\ mm.mounted /\ mm.variant = "search"
    /\ \E q \in MMQueries :
          q /= mm.searchQuery /\ mm' = [mm EXCEPT !.searchQuery = q, !.afterTick = FALSE]
    /\ UNCHANGED <<kd, mc, tm, cp, pp, tt, le, sp>>

\* resetSearchResults (184-194): the features of the searchResults state go
\* back to blue, the results and the query are emptied
resetSearchResults(m) ==
    [m EXCEPT !.style = [k \in DOMAIN m.style |->
                            IF \E i \in 1..Len(m.searchResults) : m.searchResults[i] = k
                            THEN StyleBlue ELSE m.style[k]],
              !.searchResults = <<>>,
              !.searchQuery = <<>>]

\* the features of map.data whose Name includes the query (157-168)
searchMatches(features, query) ==
    SelectSeq([k \in 1..Len(features) |-> k],
              LAMBDA k : includes(toLowerCase(Chars(features[k].name)), query))

\* the center fitBounds gives the map: the middle of the box around the
\* points of the LineStrings among the results (173-179); the datasets keep
\* it on the grid
boundsCenter(features, results, center) ==
    LET pts == UNION {{features[results[i]].coordinates[j] :
                          j \in 1..Len(features[results[i]].coordinates)} :
                      i \in {i \in 1..Len(results) :
                                features[results[i]].type = "LineString"}}
        lngs == {c[1] : c \in pts}
        lats == {c[2] : c \in pts}
        Lo(S) == CHOOSE v \in S : \A o \in S : v <= o
        Hi(S) == CHOOSE v \in S : \A o \in S : v >= o
    IN  IF pts = {} THEN center
        ELSE [lat |-> (Lo(lats) + Hi(lats)) \div 2, lng |-> (Lo(lngs) + Hi(lngs)) \div 2]

\* handleSearch (148-182); getType() on a result without geometry throws
\* after setSearchResults, before fitBounds
handleSearch(m) ==
    IF trim(m.searchQuery) = <<>> THEN resetSearchResults(m)
    ELSE LET features == IF m.features = None THEN <<>> ELSE Val(m.features)
             results == searchMatches(features, toLowerCase(trim(m.searchQuery)))
         IN  [m EXCEPT
                !.style = [k \in DOMAIN m.style |->
                              IF \E i \in 1..Len(results) : results[i] = k
                              THEN StyleSearch ELSE m.style[k]],
                !.searchResults = results,
                !.center = IF \E i \in 1..Len(results) : features[results[i]].type = "none"
                           THEN m.center
                           ELSE boundsCenter(features, results, m.center)]

\* the search button or Enter (273-276)
MMSearch ==
    /\ mm.mounted /\ mm.variant = "search"
    /\ mm' = [handleSearch(mm) EXCEPT !.afterTick = FALSE]
    /\ UNCHANGED <<kd, mc, tm, cp, pp, tt, le, sp>>

\* the reset button (288)
MMResetSearch ==
    /\ mm.mounted /\ mm.variant = "search"
    /\ mm.searchResults /= <<>>
    /\ mm' = [resetSearchResults(mm) EXCEPT !.afterTick = FALSE]
    /\ UNCHANGED <<kd, mc, tm, cp, pp, tt, le, sp>>

NextMM == MMLoadData \/ MMPan \/ MMInterval \/ MMSetQuery \/ MMSearch \/ MMResetSearch

SpecMM == InitMM /\ [][NextMM]_vars

(***************************************************************************)
(* closestPointOnSegment (MyGeoJsonMap.jsx 392-405, part_000 174-187) on   *)
(* its own.  A LatLng is a record of lat and lng; those of the result are  *)
(* the fractions n / d, t being dot / lengthSquared.                       *)
(***************************************************************************)
Whole(v) == [n |-> v, d |-> 1]
AsLatLng(a) == [lat |-> Whole(a.lat), lng |-> Whole(a.lng)]

\* t > 1 answers a as t < 0 does
closestPointOnSegmentOneSided(p, a, b) ==
    LET dx == b.lng - a.lng
        dy == b.lat - a.lat
        lengthSquared == dx * dx + dy * dy
        dot == (p.lng - a.lng) * dx + (p.lat - a.lat) * dy
    IN  IF lengthSquared = 0 THEN AsLatLng(a)
        ELSE IF dot < 0 THEN AsLatLng(a)
        ELSE IF dot > lengthSquared THEN AsLatLng(a)
        ELSE [lat |-> [n |-> a.lat * lengthSquared + dot * dy, d |-> lengthSquared],
              lng |-> [n |-> a.lng * lengthSquared + dot * dx, d |-> lengthSquared]]

closestPointOnSegment(p, a, b) ==
    LET dx == b.lng - a.lng
        dy == b.lat - a.lat
        lengthSquared == dx * dx + dy * dy
        dot == (p.lng - a.lng) * dx + (p.lat - a.lat) * dy
    IN  IF lengthSquared = 0 THEN AsLatLng(a)
        ELSE IF dot < 0 THEN AsLatLng(a)
        ELSE IF dot > lengthSquared THEN AsLatLng(b)
        ELSE [lat |-> [n |-> a.lat * lengthSquared + dot * dy, d |-> lengthSquared],
              lng |-> [n |-> a.lng * lengthSquared + dot * dx, d |-> lengthSquared]]

\* the points the function is called on
CPLngs == {-5, 0, 5, 10, 15}
CPLats == {0, 2, 4}
CPPoints == [lat : CPLats, lng : CPLngs]

InitCP ==
    /\ cp \in [called : {FALSE}, p : CPPoints, a : CPPoints, b : CPPoints,
               result : {None}]
    /\ kd = KDIdle
    /\ mc = MCIdle
    /\ tm = TMIdle
    /\ mm = MMIdle
    /\ pp = PPIdle
    /\ tt = TTIdle
    /\ le = LSIdle
    /\ sp = SPIdle

\* closestPointOnSegment(p, a, b, google)
CPCall ==
    /\ ~cp.called
    /\ cp' = [cp EXCEPT !.called = TRUE,
                        !.result = Some(closestPointOnSegment(cp.p, cp.a, cp.b))]
    /\ UNCHANGED <<kd, mc, tm, mm, pp, tt, le, sp>>

NextCP == CPCall

SpecCP == InitCP /\ [][NextCP]_vars

(***************************************************************************)
(* isPointInPolygon (TeraaMap.jsx 104-118) on its own.  The rings it is    *)
(* called on are three simple shapes, each from every starting vertex, in  *)
(* both orientations, open and closed (the first vertex repeated at the    *)
(* end, as GeoJSON writes a ring), and the empty ring.                     *)
(***************************************************************************)
MaxPP == 5          \* the query points lie on the grid -1..MaxPP in both axes

PPShapes ==
    [square |-> <<<<0, 0>>, <<4, 0>>, <<4, 4>>, <<0, 4>>>>,
     triangle |-> <<<<0, 0>>, <<4, 0>>, <<0, 4>>>>,
     ell |-> <<<<0, 0>>, <<4, 0>>, <<4, 2>>, <<2, 2>>, <<2, 4>>, <<0, 4>>>>]

Rotated(ring, k) == [i \in 1..Len(ring) |-> ring[((i + k - 1) % Len(ring)) + 1]]
Reversed(ring) == [i \in 1..Len(ring) |-> ring[Len(ring) + 1 - i]]
Closed(ring) == ring \o <<ring[1]>>

\* the rings of a shape
PPRings(shape) ==
    LET open == {Rotated(PPShapes[shape], k) : k \in 0..(Len(PPShapes[shape]) - 1)}
        both == open \cup {Reversed(r) : r \in open}
    IN  both \cup {Closed(r) : r \in both}

PPCalls ==
    UNION {{[shape |-> sh, polygon |-> r] : r \in PPRings(sh)} : sh \in DOMAIN PPShapes}
    \cup {[shape |-> "empty", polygon |-> <<>>]}

PPPoints == {<<x, y>> : x \in -1..MaxPP, y \in -1..MaxPP}

InitPP ==
    /\ pp \in {[called |-> FALSE, shape |-> c.shape, polygon |-> c.polygon,
                 point |-> q, result |-> None] : c \in PPCalls, q \in PPPoints}
    /\ kd = KDIdle
    /\ mc = MCIdle
    /\ tm = TMIdle
    /\ mm = MMIdle
    /\ cp = CPIdle
    /\ tt = TTIdle
    /\ le = LSIdle
    /\ sp = SPIdle

\* isPointInPolygon(point, polygon)
PPCall ==
    /\ ~pp.called
    /\ pp' = [pp EXCEPT !.called = TRUE,
                        !.result = Some(isPointInPolygon(pp.point, pp.polygon))]
    /\ UNCHANGED <<kd, mc, tm, mm, cp, tt, le, sp>>

NextPP == PPCall

SpecPP == InitPP /\ [][NextPP]_vars

(***************************************************************************)
(* throttle(func, limit) (TeraaMap.jsx 26-46) on its own: calls of the     *)
(* returned function, the passing of time and the timeout it arms.  The    *)
(* arguments of a call are its number in the session and a value; exec is  *)
(* the arguments of the latest execution of func.  lastRan is kept as the  *)
(* time since func last ran, capped at limit.                              *)
(***************************************************************************)
MaxCalls == 3       \* calls of the throttled function in one session

TTValues == {"a", "b"}

TTStart == [called |-> TRUE, th |-> [lastRan |-> None, inThrottle |-> None],
            calls |-> 0, deferred |-> 0, exec |-> None]

InitTT ==
    /\ tt = TTStart
    /\ kd = KDIdle
    /\ mc = MCIdle
    /\ tm = TMIdle
    /\ mm = MMIdle
    /\ cp = CPIdle
    /\ pp = PPIdle
    /\ le = LSIdle
    /\ sp = SPIdle

\* the state after the throttled function or its timeout ran, t being what
\* throttled or throttleTimeout answered
TTAfter(s, t) ==
    [s EXCEPT !.th = [lastRan |-> t.lastRan, inThrottle |-> t.inThrottle],
              !.exec = IF t.ran /= None THEN t.ran ELSE @]

\* a call of the function throttle returned (30-44)
TTCall ==
    /\ tt.called /\ tt.calls < MaxCalls
    /\ \E v \in TTValues :
          LET args == [n |-> tt.calls + 1, v |-> v]
              t == throttled(tt.th, nominatimLimit, args)
          IN  tt' = [TTAfter(tt, t) EXCEPT
                        !.calls = @ + 1,
                        !.deferred = IF t.ran = None THEN @ + 1 ELSE 0]
    /\ UNCHANGED <<kd, mc, tm, mm, cp, pp, le, sp>>

\* 50 ms pass; a timeout that is due runs before more time passes
TTTick ==
    /\ tt.called
    /\ ~TimeoutDue(tt.th.inThrottle)
    /\ \/ tt.th.inThrottle /= None
       \/ (tt.th.lastRan /= None /\ Val(tt.th.lastRan) < nominatimLimit)
    /\ tt' = [tt EXCEPT !.th = [lastRan |-> IF @.lastRan = None THEN None
                                            ELSE Some(Min2(Val(@.lastRan) + 1,
                                                           nominatimLimit)),
                                inThrottle |-> Aged(@.inThrottle)]]
    /\ UNCHANGED <<kd, mc, tm, mm, cp, pp, le, sp>>

\* the timeout armed by the throttled function fires (36-41)
TTFire ==
    /\ tt.called /\ TimeoutDue(tt.th.inThrottle)
    /\ tt' = TTAfter(tt, throttleTimeout(tt.th, nominatimLimit))
    /\ UNCHANGED <<kd, mc, tm, mm, cp, pp, le, sp>>

NextTT == TTCall \/ TTTick \/ TTFire

SpecTT == InitTT /\ [][NextTT]_vars

\* time passes and a timeout that is due fires; calls come when they come
SpecTTFair == SpecTT /\ WF_vars(TTTick) /\ WF_vars(TTFire)

(***************************************************************************)
(* loadExternalScript and pollForGlobal (MyGeoJsonMap.jsx 525-569) on      *)
(* their own.  script is the state of the script element with the given    *)
(* id; global says whether window[globalVarName] is set, which the page    *)
(* may do at any time; one time unit is 50 ms.                             *)
(***************************************************************************)
maxAttempts == 50
intervalTime == 2

LSStart(script, global) ==
    [called |-> FALSE, script |-> script, global |-> global,
     timer |-> None, waited |-> 0, lastWait |-> None,
     attempts |-> 0, repolls |-> 0,
     loaded |-> None, sawGlobal |-> FALSE, gaveUp |-> FALSE, errored |-> FALSE,
     resolves |-> 0]

InitLS ==
    /\ le \in {LSStart("absent", FALSE), LSStart("present", FALSE),
               LSStart("present", TRUE)}
    /\ kd = KDIdle
    /\ mc = MCIdle
    /\ tm = TMIdle
    /\ mm = MMIdle
    /\ cp = CPIdle
    /\ pp = PPIdle
    /\ tt = TTIdle
    /\ sp = SPIdle

\* resolve() / resolvePromise(): counted, without end at 2
resolvePromise(s) == [s EXCEPT !.resolves = Min2(@ + 1, 2)]

\* pollForGlobal that gives up without settling the promise
pollForGlobalSilent(s, attempts) ==
    IF s.global
    THEN resolvePromise([s EXCEPT !.attempts = attempts, !.loaded = Some(TRUE),
                                  !.sawGlobal = TRUE])
    ELSE IF attempts < maxAttempts
    THEN [s EXCEPT !.attempts = attempts, !.repolls = @ + 1,
                   !.timer = Timeout(intervalTime, attempts + 1), !.waited = 0]
    ELSE [s EXCEPT !.attempts = attempts, !.loaded = Some(FALSE), !.gaveUp = TRUE]

\* pollForGlobal(globalVarName, setLoadedState, resolvePromise, scriptId, attempts)
pollForGlobal(s, attempts) ==
    IF s.global
    THEN resolvePromise([s EXCEPT !.attempts = attempts, !.loaded = Some(TRUE),
                                  !.sawGlobal = TRUE])
    ELSE IF attempts < maxAttempts
    THEN [s EXCEPT !.attempts = attempts, !.repolls = @ + 1,
                   !.timer = Timeout(intervalTime, attempts + 1), !.waited = 0]
    ELSE resolvePromise([s EXCEPT !.attempts = attempts, !.loaded = Some(FALSE),
                                  !.gaveUp = TRUE])

\* loadExternalScript(src, id, globalVarName, setLoadedState) up to its return
loadExternalScript(s) ==
    IF s.script /= "absent" THEN pollForGlobal(s, 0)
    ELSE [s EXCEPT !.script = "loading"]

LSCall ==
    /\ ~le.called
    /\ le' = [loadExternalScript(le) EXCEPT !.called = TRUE]
    /\ UNCHANGED <<kd, mc, tm, mm, cp, pp, tt, sp>>

\* script.onload (538-541)
LSOnload ==
    /\ le.called /\ le.script = "loading"
    /\ le' = pollForGlobal([le EXCEPT !.script = "present"], 0)
    /\ UNCHANGED <<kd, mc, tm, mm, cp, pp, tt, sp>>

\* script.onerror (542-546)
LSOnerror ==
    /\ le.called /\ le.script = "loading"
    /\ le' = resolvePromise([le EXCEPT !.script = "failed", !.loaded = Some(FALSE),
                                      !.errored = TRUE])
    /\ UNCHANGED <<kd, mc, tm, mm, cp, pp, tt, sp>>

\* the page sets window[globalVarName]
LSGlobalAppears ==
    /\ ~le.global /\ le.script \in {"present", "loading"}
    /\ le' = [le EXCEPT !.global = TRUE]
    /\ UNCHANGED <<kd, mc, tm, mm, cp, pp, tt, sp>>

\* 50 ms pass; a timeout that is due runs before more time passes
LSTick ==
    /\ le.called /\ le.timer /= None /\ ~TimeoutDue(le.timer)
    /\ le' = [le EXCEPT !.timer = Aged(@), !.waited = @ + 1]
    /\ UNCHANGED <<kd, mc, tm, mm, cp, pp, tt, sp>>

\* the timeout of pollForGlobal fires (561-563)
LSPollTimeout ==
    /\ le.called /\ TimeoutDue(le.timer)
    /\ le' = pollForGlobal([le EXCEPT !.timer = None, !.lastWait = Some(le.waited)],
                          Val(le.timer).args)
    /\ UNCHANGED <<kd, mc, tm, mm, cp, pp, tt, sp>>

NextLS ==
    \/ LSCall \/ LSOnload \/ LSOnerror \/ LSGlobalAppears \/ LSTick \/ LSPollTimeout

SpecLS == InitLS /\ [][NextLS]_vars

\* the browser fires load or error for an appended script, time passes and a
\* timeout that is due fires
SpecLSFair ==
    /\ SpecLS
    /\ WF_vars(LSOnload \/ LSOnerror)
    /\ WF_vars(LSTick)
    /\ WF_vars(LSPollTimeout)

(***************************************************************************)
(* TeraaMap: the search box, a click on a drawn feature and the render     *)
(* that follows a state update (TeraaMap.jsx 546-561, 601-652, 667-675,    *)
(* 860-873).                                                               *)
(***************************************************************************)
SupportedTypes ==
    {"Point", "LineString", "MultiLineString", "Polygon", "MultiPolygon"}

\* what geometry.coordinates[0] is: 0 a number, 1 a position [lng, lat],
\* 2 a list of positions, 3 a list of rings
Nesting(f) ==
    CASE f.type = "Point" -> 0
      [] f.type = "LineString" -> 1
      [] f.type \in {"MultiLineString", "Polygon"} -> 2
      [] f.type = "MultiPolygon" -> 3

\* geometry is an object with a coordinates array
hasCoordinates(f) == f.type \in SupportedTypes

SPAllTypes ==
    <<PointF("p", <<31, 30>>),
      LineF("n", <<<<31, 30>>, <<32, 30>>>>),
      MultiLineF("k", <<<<<<31, 30>>, <<32, 30>>>>, <<<<33, 30>>, <<34, 30>>>>>>),
      PolyF("F", <<Square(0, 0, 4, 4)>>),
      MultiPolyF("g", <<<<Square(0, 0, 4, 4)>>, <<Square(6, 6, 8, 8)>>>>)>>

SPLines ==
    <<LineF("N", <<<<31, 30>>, <<32, 30>>>>),
      LineF("", <<<<5, 6>>, <<7, 8>>>>),
      LineF("k", <<<<33, 29>>, <<34, 29>>, <<35, 28>>>>)>>

SPOdd ==
    <<NoGeomF("e"), LineF("f", <<>>), LineF("n", <<<<31, 30>>, <<32, 30>>>>)>>

SPDatasets == {SPAllTypes, SPLines, SPOdd}

\* what the user may type into the search box
SPInputs ==
    {<<>>, <<" ">>, <<"p">>, <<"N", " ">>, <<"k">>, <<"f">>, <<"g">>, <<"e">>,
     <<"x">>}

SPStart ==
    [called |-> TRUE, geojson |-> None, map |-> FALSE,
     searchedPlaceInput |-> <<>>,
     highlightedFeature |-> None, searchResultInfo |-> None,
     locationInfo |-> None, view |-> None,
     highlightedCoords |-> None,
     raised |-> FALSE, crashed |-> FALSE,
     last |-> [op |-> "none", found |-> None]]

InitSP ==
    /\ sp = SPStart
    /\ kd = KDIdle
    /\ mc = MCIdle
    /\ tm = TMIdle
    /\ mm = MMIdle
    /\ cp = CPIdle
    /\ pp = PPIdle
    /\ tt = TTIdle
    /\ le = LSIdle

\* the render of TeraaMap after a state update: highlightedCoords (667-670)
\* and the popup of the marker of the highlighted feature (860-873).  A
\* render that raises unmounts the component.
rendered(s) ==
    IF s.highlightedFeature = None THEN [s EXCEPT !.highlightedCoords = None]
    ELSE LET f == Val(s.highlightedFeature) IN
         IF ~hasCoordinates(f)
         THEN [s EXCEPT !.highlightedCoords = None, !.crashed = TRUE]
         ELSE IF Len(f.coordinates) = 0 THEN [s EXCEPT !.highlightedCoords = None]
         ELSE IF Nesting(f) = 0
         \* coordinates[0] is a number: .slice is not a function
         THEN [s EXCEPT !.highlightedCoords = None, !.crashed = TRUE]
         ELSE [s EXCEPT
                 !.highlightedCoords =
                     Some([nesting |-> Nesting(f),
                           value |-> Reversed(f.coordinates[1])]),
                 \* highlightedCoords[0].toFixed(5) on an array
                 !.crashed = (Nesting(f) /= 1)]

\* the block shared by handlePolylineClick (548-560) and handleSearch
\* (620-644): if (map && coordinates.length > 0) { startCoord, setView, ... }
showStart(s, f, name, fromSearch, setViewRaises) ==
    IF ~s.map THEN s
    ELSE IF ~hasCoordinates(f) THEN [s EXCEPT !.raised = TRUE]
    ELSE IF Len(f.coordinates) = 0 THEN s
    ELSE IF Nesting(f) = 0 THEN [s EXCEPT !.raised = TRUE]
    ELSE LET startCoord == Reversed(f.coordinates[1]) IN
         IF Nesting(f) = 1
         THEN LET info == [name |-> name, coordinates |-> startCoord] IN
              [s EXCEPT
                 !.view = Some([valid |-> TRUE, center |-> startCoord]),
                 !.searchResultInfo = Some(info),
                 !.locationInfo = IF fromSearch THEN Some(info) ELSE @,
                 !.searchedPlaceInput = IF fromSearch THEN <<>> ELSE @]
         \* startCoord is a list of positions or of rings: Leaflet is handed
         \* it as a center, then startCoord[0].toFixed(8) raises
         ELSE [s EXCEPT
                 !.raised = TRUE,
                 !.view = IF setViewRaises THEN @
                          ELSE Some([valid |-> FALSE, center |-> <<0, 0>>])]

\* geojson.features.find(...) of handleSearch: the index of the first feature
\* whose name includes the term, 0 when there is none
findFeature(features, term) ==
    LET hits == {i \in 1..Len(features) :
                    includes(toLowerCase(Chars(features[i].name)), term)}
    IN IF hits = {} THEN 0 ELSE CHOOSE i \in hits : \A j \in hits : i <= j

\* handleSearch of TeraaMap (601-652)
searchPlace(s, setViewRaises) ==
    IF s.geojson = None \/ trim(s.searchedPlaceInput) = <<>>
    THEN [s EXCEPT !.highlightedFeature = None, !.searchResultInfo = None,
                   !.raised = FALSE,
                   !.last = [op |-> "search", found |-> None]]
    ELSE LET features == Val(s.geojson)
             k == findFeature(features, toLowerCase(trim(s.searchedPlaceInput)))
         IN IF k = 0
            THEN [s EXCEPT !.highlightedFeature = None, !.searchResultInfo = None,
                           !.raised = FALSE,
                           !.last = [op |-> "search", found |-> None]]
            ELSE showStart([s EXCEPT !.highlightedFeature = Some(features[k]),
                                     !.raised = FALSE,
                                     !.last = [op |-> "search",
                                               found |-> Some(features[k])]],
                           features[k], features[k].name, TRUE, setViewRaises)

\* handlePolylineClick (546-561)
handlePolylineClick(s, f, setViewRaises) ==
    showStart([s EXCEPT !.highlightedFeature = Some(f), !.raised = FALSE,
                        !.last = [op |-> "click", found |-> Some(f)]],
              f, IF f.name = "" THEN "?" ELSE f.name, FALSE, setViewRaises)

\* the fetch of the GeoJSON file resolves (527-543)
SPLoadData ==
    /\ sp.called /\ ~sp.crashed /\ sp.geojson = None
    /\ \E d \in SPDatasets : sp' = rendered([sp EXCEPT !.geojson = Some(d)])
    /\ UNCHANGED <<kd, mc, tm, mm, cp, pp, tt, le>>

\* MapContainer, rendered once the data is there, hands the map to mapRef
SPMapCreated ==
    /\ sp.called /\ ~sp.crashed /\ sp.geojson /= None /\ ~sp.map
    /\ sp' = [sp EXCEPT !.map = TRUE, !.last = SPStart.last]
    /\ UNCHANGED <<kd, mc, tm, mm, cp, pp, tt, le>>

\* onChange of the search input
SPType ==
    /\ sp.called /\ ~sp.crashed /\ sp.geojson /= None
    /\ \E q \in SPInputs :
          q /= sp.searchedPlaceInput
          /\ sp' = rendered([sp EXCEPT !.searchedPlaceInput = q,
                                       !.last = SPStart.last])
    /\ UNCHANGED <<kd, mc, tm, mm, cp, pp, tt, le>>

\* the search button or Enter, and the render after it
SPSearch ==
    /\ sp.called /\ ~sp.crashed /\ sp.geojson /= None
    /\ \E setViewRaises \in BOOLEAN : sp' = rendered(searchPlace(sp, setViewRaises))
    /\ UNCHANGED <<kd, mc, tm, mm, cp, pp, tt, le>>

\* a click on a drawn feature, and the render after it
SPClick ==
    /\ sp.called /\ ~sp.crashed /\ sp.geojson /= None /\ sp.map
    /\ \E k \in 1..Len(Val(sp.geojson)), setViewRaises \in BOOLEAN :
          LET f == Val(sp.geojson)[k] IN
          /\ hasCoordinates(f) /\ Len(f.coordinates) > 0
          /\ sp' = rendered(handlePolylineClick(sp, f, setViewRaises))
    /\ UNCHANGED <<kd, mc, tm, mm, cp, pp, tt, le>>

NextSP == SPLoadData \/ SPMapCreated \/ SPType \/ SPSearch \/ SPClick

SpecSP == InitSP /\ [][NextSP]_vars

(***************************************************************************)
(* The three viewers together: one of them is mounted.                     *)
(***************************************************************************)
Init == InitMC \/ InitTM \/ InitMM

Next == NextMC \/ NextTM \/ NextMM

Spec == Init /\ [][Next]_vars

(***************************************************************************)
(* What the resolvers are asked for, stated on the dataset itself.         *)
(***************************************************************************)
\* q = [lng, lat] lies inside polygon f and off its boundary
ContainsStrictly(q, f) ==
    /\ IsPolygonal(f) /\ f.name /= ""
    /\ turfBooleanPointInPolygon(q, f)
    /\ edgeDistance2(q, polygonExterior(f)) /= None
    /\ Val(edgeDistance2(q, polygonExterior(f))).n > 0

InsideNoPolygon(q, data) ==
    \A k \in 1..Len(data) :
        ~(IsPolygonal(data[k]) /\ turfBooleanPointInPolygon(q, data[k]))

\* the squared distance n / d from q to a LineString
LineStringDist2(q, f) == Val(LineDist2From(q, f.coordinates, 1))

IsNamedLine(f) == f.type = "LineString" /\ f.name /= "" /\ Len(f.coordinates) >= 2

\* within MAX_DISTANCE_TO_LINE_OR_EDGE_KM of MapComponent
MCLineNear(q, f) == IsNamedLine(f) /\ WithinLineKm(LineStringDist2(q, f))
\* within the tolerance of TeraaMap's isPointNearLine
TMLineNear(q, f) == IsNamedLine(f) /\ NearerThan(LineStringDist2(q, f), tolerance)
\* within the 20 m of MyMap
MMLineNear(q, f) == f.type = "LineString" /\ Len(f.coordinates) >= 2
                    /\ NearerThan(LineStringDist2(q, f), scanRadius)

IsNamedPoint(f) == f.type = "Point" /\ f.name /= "" /\ Len(f.coordinates) >= 2

MCPointNear(q, f) == IsNamedPoint(f) /\ WithinPointKm(Dist2(q, f.coordinates))
TMPointNear(q, f) ==
    /\ IsNamedPoint(f)
    /\ calculateDistance2(q[2], q[1], f.coordinates[2], f.coordinates[1])
           < pointRadiusDm * pointRadiusDm

\* a resolve call of MapComponent made with data, index and turf in place
MCResolved ==
    /\ mc.mounted
    /\ mc.lastCheck /= None
    /\ depsReady(Val(mc.lastCheck).snap)

\* a resolve call of TeraaMap made with the index in place, which returned
TMResolved ==
    /\ tm.mounted
    /\ tm.lastResolve /= None
    /\ ~Val(tm.lastResolve).threw
    /\ Val(tm.lastResolve).rbush /= None
    /\ Val(tm.lastResolve).geojson /= None

\* an interval scan of MyMap that ran to its end
MMScanned ==
    /\ mm.mounted
    /\ mm.lastScan /= None
    /\ Val(mm.lastScan).result.kind /= "threw"

SeqRange(s) == {s[i] : i \in DOMAIN s}

\* C1: a range call returns the id of every indexed entry whose point lies in
\* the closed rectangle, and the empty array (never null) when none does.
C1_RangeRecall ==
    (IsSome(kd.result) /\ IsSome(kd.query)) =>
        LET r == Val(kd.query)
            res == Val(kd.result)
            hits == {i \in 1..Len(kd.points) :
                        /\ r.minX <= kd.points[i].x /\ kd.points[i].x <= r.maxX
                        /\ r.minY <= kd.points[i].y /\ kd.points[i].y <= r.maxY}
        IN  /\ \A i \in hits : (i - 1) \in SeqRange(res)
            /\ (hits = {} => res = <<>>)

\* a long list was indexed (select ran) and a query on a rectangle edge matched
C1_Witness ==
    /\ IsSome(kd.result)
    /\ Len(kd.points) > 2 * nodeSize
    /\ Val(kd.query).minX = Val(kd.query).maxX
    /\ Len(Val(kd.result)) > 0
    /\ Val(kd.index).ids /= [i \in 0..(Len(kd.points) - 1) |-> i]

\* the ids range returns around the centers, with either search radius
MCRangedIds(si) ==
    UNION {SeqRange(rangeAround(si.index, c.lat, c.lng, r)) :
              c \in MCCenters,
              r \in {searchRadiusDegreesForPoints, searchRadiusDegreesForGeometries}}

\* C2: in MapComponent every id that spatialIndex.index.range returns maps
\* through spatialIndex.featureMap to the feature whose coordinates the index
\* stores at that entry, also when features were skipped during the build.
C2_FeatureMapMatchesIndex ==
    (mc.mounted /\ mc.spatialIndex /= None) =>
        \A id \in MCRangedIds(Val(mc.spatialIndex)) :
            /\ featureMapGet(Val(mc.spatialIndex).featureMap, id) /= None
            /\ Val(featureMapGet(Val(mc.spatialIndex).featureMap, id)).coordinates
                   = <<Val(mc.spatialIndex).index.coords[2 * id],
                       Val(mc.spatialIndex).index.coords[2 * id + 1]>>

\* C3: a query point strictly inside polygon A and within the distance
\* threshold of a line B resolves to A's name, in MapComponent and in
\* TeraaMap, whatever the order of the candidates.
C3_ContainmentPriority ==
    /\ MCResolved =>
          \A a, b \in 1..Len(Val(Val(mc.lastCheck).snap.geojsonData)) :
              (/\ ContainsStrictly(<<Val(mc.lastCheck).lng, Val(mc.lastCheck).lat>>,
                                   Val(Val(mc.lastCheck).snap.geojsonData)[a])
               /\ MCLineNear(<<Val(mc.lastCheck).lng, Val(mc.lastCheck).lat>>,
                             Val(Val(mc.lastCheck).snap.geojsonData)[b]))
              => Val(mc.lastCheck).name
                     = Some(Val(Val(mc.lastCheck).snap.geojsonData)[a].name)
    /\ TMResolved =>
          \A a, b \in 1..Len(Val(Val(tm.lastResolve).geojson)) :
              (/\ ContainsStrictly(<<Val(tm.lastResolve).lng, Val(tm.lastResolve).lat>>,
                                   Val(Val(tm.lastResolve).geojson)[a])
               /\ TMLineNear(<<Val(tm.lastResolve).lng, Val(tm.lastResolve).lat>>,
                             Val(Val(tm.lastResolve).geojson)[b]))
              => Val(tm.lastResolve).name = Some(Val(Val(tm.lastResolve).geojson)[a].name)

\* C4: a query point within threshold of a named Point C and of a LineString
\* D, inside no polygon, resolves to C's name, whatever the order in which
\* the index returns the candidates.
C4_PointOverLine ==
    /\ MCResolved =>
          \A c, d \in 1..Len(Val(Val(mc.lastCheck).snap.geojsonData)) :
              (/\ MCPointNear(<<Val(mc.lastCheck).lng, Val(mc.lastCheck).lat>>,
                              Val(Val(mc.lastCheck).snap.geojsonData)[c])
               /\ MCLineNear(<<Val(mc.lastCheck).lng, Val(mc.lastCheck).lat>>,
                             Val(Val(mc.lastCheck).snap.geojsonData)[d])
               /\ InsideNoPolygon(<<Val(mc.lastCheck).lng, Val(mc.lastCheck).lat>>,
                                  Val(Val(mc.lastCheck).snap.geojsonData)))
              => Val(mc.lastCheck).name
                     = Some(Val(Val(mc.lastCheck).snap.geojsonData)[c].name)
    /\ TMResolved =>
          \A c, d \in 1..Len(Val(Val(tm.lastResolve).geojson)) :
              (/\ TMPointNear(<<Val(tm.lastResolve).lng, Val(tm.lastResolve).lat>>,
                              Val(Val(tm.lastResolve).geojson)[c])
               /\ TMLineNear(<<Val(tm.lastResolve).lng, Val(tm.lastResolve).lat>>,
                             Val(Val(tm.lastResolve).geojson)[d])
               /\ InsideNoPolygon(<<Val(tm.lastResolve).lng, Val(tm.lastResolve).lat>>,
                                  Val(Val(tm.lastResolve).geojson)))
              => Val(tm.lastResolve).name = Some(Val(Val(tm.lastResolve).geojson)[c].name)

\* what a debounced function owes its callers: it ran at most once since the
\* last call; a run came no sooner than delay after that call, with its
\* arguments; and while the run is still to come the timeout that will
\* deliver it is armed with those arguments
DebounceKept(g, timeout, delay) ==
    /\ g.runs <= 1
    /\ g.lastRun /= None =>
          /\ Val(g.lastRun).since >= delay
          /\ Val(g.lastRun).lastCall = Some(Val(g.lastRun).args)
    /\ (g.lastCall /= None /\ g.runs = 0) =>
          /\ timeout /= None
          /\ Val(timeout).args = Val(g.lastCall)
          /\ Val(timeout).rem = delay - g.since

\* C5: a debounced function (debounce() in TeraaMap,
\* debouncedUpdateLocationDisplay in MapComponent) runs the wrapped function
\* only after the delay has passed without a further call, with the
\* arguments of the most recent call, and exactly once per burst.
C5_Debounce ==
    /\ mc.mounted => DebounceKept(mc.db, mc.debounceTimeoutRef, DEBOUNCE_DELAY_MS)
    /\ tm.mounted =>
          /\ DebounceKept(tm.checkDb, tm.checkTimeout, checkDelay)
          /\ DebounceKept(tm.coordinatesDb, tm.coordinatesTimeout, coordinatesDelay)

\* C6: every moveend of MapCenterTracker sets the center coordinates to the
\* final center at once and calls checkGeoJSONLocation with it in the same
\* step, showing a local name it finds, whether or not a debounce timeout of
\* earlier move events is still armed (which it leaves alone).
C6_MoveEndImmediate ==
    [][(tm.mounted /\ tm.moving /\ ~tm'.moving) =>
          /\ tm'.center = tm.center
          /\ tm'.centerCoordinates = tm.center
          /\ tm'.lastResolve =
                Some([by |-> "moveend", lat |-> tm.center.lat, lng |-> tm.center.lng,
                      name |-> checkGeoJSONLocation(tm.rbushRef, tm.center.lat,
                                                    tm.center.lng),
                      threw |-> checkGeoJSONLocationThrows(tm.rbushRef, tm.center.lat,
                                                           tm.center.lng),
                      rbush |-> tm.rbushRef, geojson |-> tm.geojson])
          /\ (checkGeoJSONLocation(tm.rbushRef, tm.center.lat, tm.center.lng) /= None
                => tm'.locationInfo =
                       Some([name |-> Val(checkGeoJSONLocation(tm.rbushRef,
                                              tm.center.lat, tm.center.lng)),
                             lat |-> tm.center.lat, lng |-> tm.center.lng,
                             isFromGeoJSON |-> TRUE]))
          /\ tm'.checkTimeout = tm.checkTimeout
          /\ tm'.coordinatesTimeout = tm.coordinatesTimeout]_vars

\* a moveend resolved a center over a local feature while the debounced check
\* of the move before it was still armed
C6_Witness ==
    /\ tm.mounted /\ ~tm.moving
    /\ tm.lastResolve /= None
    /\ Val(tm.lastResolve).by = "moveend"
    /\ Val(tm.lastResolve).name /= None
    /\ tm.checkTimeout /= None
    /\ tm.centerCoordinates = tm.center
    /\ tm.center /= defaultCenter

\* movement has ended and no timeout or request is left
TMSettled ==
    /\ tm.mounted /\ tm.listening /\ ~tm.moving
    /\ tm.lastResolve /= None
    /\ tm.checkTimeout = None /\ tm.coordinatesTimeout = None
    /\ tm.th.inThrottle = None /\ tm.fetches = {}

\* C7: once movement has ended and every debounce timeout, throttle timeout
\* and Nominatim request has completed, the locationInfo on display is the
\* one resolved for the final center.
C7_FinalInfoForFinalCenter ==
    TMSettled =>
        /\ tm.locationInfo /= None
        /\ Val(tm.locationInfo).lat = tm.center.lat
        /\ Val(tm.locationInfo).lng = tm.center.lng
        /\ Val(tm.locationInfo).isFromGeoJSON
               = (checkGeoJSONLocation(tm.rbushRef, tm.center.lat, tm.center.lng) /= None)

\* C8: any two executions of the function wrapped by throttle(func, limit)
\* are at least limit apart.
C8_ThrottleSpacing ==
    (tm.mounted /\ tm.thDb.gap /= None) => Val(tm.thDb.gap) >= nominatimLimit

\* the throttled call ran twice, the second time out of the timeout
C8_Witness ==
    /\ tm.mounted
    /\ tm.thDb.gap /= None
    /\ tm.th.lastRan = Some(0)
    /\ tm.th.inThrottle = None

\* every indexable point of features, in order, is an entry of the index
\* with its own coordinates, and there is no other entry
CompleteKDBush(si, features) ==
    LET pts == SelectSeq(features, IndexablePoint)
    IN  /\ Len(pts) > 0
        /\ DOMAIN si.index.ids = 0..(Len(pts) - 1)
        /\ {si.index.ids[k] : k \in DOMAIN si.index.ids} = 0..(Len(pts) - 1)
        /\ \A k \in 0..(Len(pts) - 1) :
              /\ si.index.coords[2 * k] = pts[k + 1].coordinates[1]
              /\ si.index.coords[2 * k + 1] = pts[k + 1].coordinates[2]

HasGeometry(f) == f.type /= "none"

\* every feature of the dataset that has a geometry is an item of the tree,
\* in order, boxed by the extent of its coordinates
CompleteRBush(tree, features) ==
    LET fs == SelectSeq(features, HasGeometry)
    IN  /\ Len(tree) = Len(fs)
        /\ \A k \in 1..Len(fs) :
              /\ tree[k].feature = fs[k]
              /\ \A c \in SeqRange(AllCoords(fs[k])) :
                    /\ tree[k].minX <= c[1] /\ c[1] <= tree[k].maxX
                    /\ tree[k].minY <= c[2] /\ c[2] <= tree[k].maxY
              /\ \E c \in SeqRange(AllCoords(fs[k])) : tree[k].minX = c[1]
              /\ \E c \in SeqRange(AllCoords(fs[k])) : tree[k].maxX = c[1]
              /\ \E c \in SeqRange(AllCoords(fs[k])) : tree[k].minY = c[2]
              /\ \E c \in SeqRange(AllCoords(fs[k])) : tree[k].maxY = c[2]

MCSwapped(spatialIndex, processedPointsData) ==
    spatialIndex /= None =>
        /\ processedPointsData /= None
        /\ processedPointsData = mc.processedPointsData
        /\ CompleteKDBush(Val(spatialIndex), Val(processedPointsData))

TMSwapped(rbush, geojson) ==
    /\ geojson = tm.geojson
    /\ rbush /= None =>
          /\ geojson /= None
          /\ CompleteRBush(Val(rbush), Val(geojson))

C10_NearestLine ==
    /\ TMResolved =>
          \A a, b \in 1..Len(Val(Val(tm.lastResolve).geojson)) :
              (/\ TMLineNear(<<Val(tm.lastResolve).lng, Val(tm.lastResolve).lat>>,
                             Val(Val(tm.lastResolve).geojson)[a])
               /\ TMLineNear(<<Val(tm.lastResolve).lng, Val(tm.lastResolve).lat>>,
                             Val(Val(tm.lastResolve).geojson)[b])
               /\ InsideNoPolygon(<<Val(tm.lastResolve).lng, Val(tm.lastResolve).lat>>,
                                  Val(Val(tm.lastResolve).geojson))
               /\ \A p \in 1..Len(Val(Val(tm.lastResolve).geojson)) :
                     ~TMPointNear(<<Val(tm.lastResolve).lng, Val(tm.lastResolve).lat>>,
                                  Val(Val(tm.lastResolve).geojson)[p])
               /\ RatLt(LineStringDist2(<<Val(tm.lastResolve).lng, Val(tm.lastResolve).lat>>,
                                        Val(Val(tm.lastResolve).geojson)[a]),
                        LineStringDist2(<<Val(tm.lastResolve).lng, Val(tm.lastResolve).lat>>,
                                        Val(Val(tm.lastResolve).geojson)[b])))
              => /\ Val(tm.lastResolve).name /= None
                 /\ Val(tm.lastResolve).name
                        /= Some(Val(Val(tm.lastResolve).geojson)[b].name)
    /\ MMScanned =>
          \A a, b \in 1..Len(Val(mm.features)) :
              (/\ MMLineNear(<<Val(mm.lastScan).center.lng, Val(mm.lastScan).center.lat>>,
                             Val(mm.features)[a])
               /\ MMLineNear(<<Val(mm.lastScan).center.lng, Val(mm.lastScan).center.lat>>,
                             Val(mm.features)[b])
               /\ RatLt(LineStringDist2(<<Val(mm.lastScan).center.lng,
                                          Val(mm.lastScan).center.lat>>, Val(mm.features)[a]),
                        LineStringDist2(<<Val(mm.lastScan).center.lng,
                                          Val(mm.lastScan).center.lat>>, Val(mm.features)[b])))
              => /\ Val(mm.lastScan).result.kind = "found"
                 /\ Val(mm.lastScan).result.feature /= b

\* a squared distance n / d is at most the square of the threshold
AtMost(r, threshold) == r.n <= threshold * threshold * r.d

\* what the switch of checkGeoJSONLocation accepts when every threshold is
\* read as inclusive
TMWithinInclusive(f, lat, lng) ==
    CASE f.type = "LineString" ->
            Len(f.coordinates) >= 2
            /\ AtMost(LineStringDist2(<<lng, lat>>, f), tolerance)
      [] f.type = "Point" ->
            calculateDistance2(lat, lng, f.coordinates[2], f.coordinates[1])
                <= pointRadiusDm * pointRadiusDm
      [] f.type = "Polygon" \/ f.type = "MultiPolygon" -> featureMatches(f, lat, lng)
      [] OTHER -> FALSE

\* C11 in TeraaMap: a named line among the candidates at a distance of at most
\* the tolerance gives a name, and a name given belongs to a feature within
\* its threshold
C11_TeraaMap ==
    TMResolved =>
        LET r == Val(tm.lastResolve)
            tree == Val(r.rbush)
        IN  /\ \A k \in 1..Len(tree) :
                  (/\ Intersects(searchBounds(r.lat, r.lng), tree[k])
                   /\ IsNamedLine(tree[k].feature)
                   /\ AtMost(LineStringDist2(<<r.lng, r.lat>>, tree[k].feature), tolerance))
                  => r.name /= None
            /\ r.name /= None =>
                  \E k \in 1..Len(tree) :
                      /\ tree[k].feature.name = Val(r.name)
                      /\ TMWithinInclusive(tree[k].feature, r.lat, r.lng)

\* C11 in MyMap: a LineString at a distance of at most 20 m is found, and the
\* line found is at most 20 m away
C11_MyMap ==
    MMScanned =>
        LET s == Val(mm.lastScan)
            q == <<s.center.lng, s.center.lat>>
            fs == Val(mm.features)
        IN  /\ \A k \in 1..Len(fs) :
                  (/\ fs[k].type = "LineString" /\ Len(fs[k].coordinates) >= 2
                   /\ AtMost(LineStringDist2(q, fs[k]), scanRadius))
                  => s.result.kind = "found"
            /\ s.result.kind = "found" =>
                  AtMost(LineStringDist2(q, fs[s.result.feature]), scanRadius)

\* C11 in MapComponent: an indexed point among the candidates of stage 1 at a
\* distance of at most MAX_DISTANCE_TO_POINT_KM gives a name, and a name given
\* by stage 1 belongs to an indexed point within that distance
C11_MapComponent ==
    MCResolved =>
        LET r == Val(mc.lastCheck)
            si == Val(r.snap.spatialIndex)
            q == <<r.lng, r.lat>>
            ids == SeqRange(rangeAround(si.index, r.lat, r.lng,
                                        searchRadiusDegreesForPoints))
            near == {id \in ids :
                        /\ featureMapGet(si.featureMap, id) /= None
                        /\ Dist2(q, Val(featureMapGet(si.featureMap, id)).coordinates)
                               * KmScaleDen
                           <= searchRadiusDegreesForPoints
                                  * searchRadiusDegreesForPoints * KmScaleNum}
        IN  /\ near /= {} => r.name /= None
            /\ stage1Of(si, r.lat, r.lng).name /= None =>
                  \E id \in near :
                      featureNameOrPlaceholder(Val(featureMapGet(si.featureMap, id)))
                          = Val(r.name)

\* C11: a feature whose exact distance from the query point equals the
\* threshold is a match and a feature farther away than the threshold is
\* not, for each exact predicate: the 20 m of MyMap, the tolerance of
\* isPointNearLine and the 0.01 km of the point check in TeraaMap, the
\* thresholds of MapComponent.
C11_ThresholdBoundary == C11_MyMap /\ C11_TeraaMap /\ C11_MapComponent

\* C12 in TeraaMap: every item whose feature the switch of
\* checkGeoJSONLocation accepts at the query point intersects the rectangle
\* that is searched
C12_TeraaMap ==
    TMResolved =>
        LET r == Val(tm.lastResolve)
            tree == Val(r.rbush)
        IN  \A k \in 1..Len(tree) :
                featureMatches(tree[k].feature, r.lat, r.lng)
                    => Intersects(searchBounds(r.lat, r.lng), tree[k])

\* the coordinates of entry id of a KDBush index
EntryCoords(index, id) == <<index.coords[2 * id], index.coords[2 * id + 1]>>

\* C12 in MapComponent: every entry within MAX_DISTANCE_TO_POINT_KM of the
\* query point is in the point rectangle, and every line of the dataset
\* within MAX_DISTANCE_TO_LINE_OR_EDGE_KM has an entry in the larger rectangle
C12_MapComponent ==
    MCResolved =>
        LET r == Val(mc.lastCheck)
            si == Val(r.snap.spatialIndex)
            q == <<r.lng, r.lat>>
            data == Val(r.snap.geojsonData)
        IN  /\ \A id \in DOMAIN si.index.ids :
                  WithinPointKm(Dist2(q, EntryCoords(si.index, id)))
                      => id \in SeqRange(rangeAround(si.index, r.lat, r.lng,
                                                     searchRadiusDegreesForPoints))
            /\ \A k \in 1..Len(data) :
                  (/\ data[k].type = "LineString"
                   /\ \A c \in SeqRange(data[k].coordinates) : Len(c) >= 2
                   /\ MCLineNear(q, data[k]))
                      => \E id \in SeqRange(rangeAround(si.index, r.lat, r.lng,
                                                searchRadiusDegreesForGeometries)) :
                             EntryCoords(si.index, id) \in SeqRange(data[k].coordinates)

\* C12: the rectangle queried from the spatial index around the query point
\* contains, or intersects the bounding box of, every feature the exact
\* predicate accepts as within the threshold; no such feature is left out of
\* the candidates because the rectangle is too small.
C12_SearchRectangleCoverage == C12_TeraaMap /\ C12_MapComponent

\* a Point feature the index build accepts
ValidPoint(f) == f.type = "Point" /\ Len(f.coordinates) >= 2

\* C13 in MapComponent: once the dataset has arrived the processed points are
\* stored with it, and once the effects have run with turf loaded every valid
\* Point feature of the dataset is an entry of the index
C13_MapComponent ==
    (mc.mounted /\ mc.geojsonData /= None) =>
        /\ mc.processedPointsData /= None
        /\ (mc.isTurfLoaded /\ ~mc.effectsPending) =>
              \A k \in 1..Len(Val(mc.geojsonData)) :
                  ValidPoint(Val(mc.geojsonData)[k]) =>
                      /\ mc.spatialIndex /= None
                      /\ \E id \in DOMAIN Val(mc.spatialIndex).index.ids :
                            EntryCoords(Val(mc.spatialIndex).index, id)
                                = Val(mc.geojsonData)[k].coordinates

\* C13 in TeraaMap: once the index build effect has run on a dataset, every
\* feature that has a geometry is an item of the tree
C13_TeraaMap ==
    (tm.mounted /\ tm.geojson /= None /\ ~tm.effectsPending) =>
        /\ tm.rbushRef /= None
        /\ CompleteRBush(Val(tm.rbushRef), Val(tm.geojson))

\* C13: loading a FeatureCollection that holds an entry without geometry or
\* with an unrecognized geometry type skips that entry and still loads and
\* indexes every other valid feature; the load is not aborted and the store
\* is not left half-populated.
C13_LoadSkipsBadEntries == C13_MapComponent /\ C13_TeraaMap

\* a polygon without a ring, on its own or inside a MultiPolygon
Malformed(f) ==
    \/ f.type = "Polygon" /\ Len(f.coordinates) = 0
    \/ f.type = "MultiPolygon" /\ \E k \in 1..Len(f.coordinates) : Len(f.coordinates[k]) = 0

WellFormedItem(it) == ~Malformed(it.feature)

\* C14 in TeraaMap: a resolve call returns, with the name the loop gives on
\* the candidates that are not malformed
C14_TeraaMap ==
    (tm.mounted /\ tm.lastResolve /= None /\ Val(tm.lastResolve).rbush /= None) =>
        LET r == Val(tm.lastResolve)
            cands == RBushSearch(Val(r.rbush), searchBounds(r.lat, r.lng))
        IN  /\ ~r.threw
            /\ r.name = firstMatch(SelectSeq(cands, WellFormedItem), r.lat, r.lng)

\* C14 in MapComponent: a candidate of stage 1 without an entry in featureMap
\* is passed over and a candidate behind it within the distance gives a name
C14_MapComponent ==
    MCResolved =>
        LET r == Val(mc.lastCheck)
            si == Val(r.snap.spatialIndex)
            cands == rangeAround(si.index, r.lat, r.lng, searchRadiusDegreesForPoints)
        IN  \A i, j \in 1..Len(cands) :
                (/\ i < j
                 /\ featureMapGet(si.featureMap, cands[i]) = None
                 /\ featureMapGet(si.featureMap, cands[j]) /= None
                 /\ WithinPointKm(Dist2(<<r.lng, r.lat>>,
                        Val(featureMapGet(si.featureMap, cands[j])).coordinates)))
                => r.name /= None

\* C14: a candidate with malformed geometry (a missing ring, an empty polygon
\* inside a MultiPolygon) is skipped during a resolve call and the other
\* candidates are still evaluated; a resolve call never raises because of one
\* malformed candidate.
C14_MalformedCandidateSkipped == C14_TeraaMap /\ C14_MapComponent

\* C15: a resolve call issued before the dataset is loaded or before the
\* spatial index is built fails fast with an error at the call boundary and
\* does not return a normal result: every call of MapComponent that returned
\* was made with its dependencies ready, and a call of TeraaMap without an
\* index raised.
C15_IndexNotBuiltFailsFast ==
    /\ (mc.mounted /\ mc.lastCheck /= None) => depsReady(Val(mc.lastCheck).snap)
    /\ (tm.mounted /\ tm.lastResolve /= None /\ Val(tm.lastResolve).rbush = None)
          => Val(tm.lastResolve).threw

\* C15 as amended: a resolve call issued before the dataset is loaded or
\* before the spatial index is built returns null, the result of a call that
\* finds no match, and does not raise; MapComponent then shows no name.
C15_IndexNotBuiltReturnsNull ==
    /\ (mc.mounted /\ mc.lastCheck /= None /\ ~depsReady(Val(mc.lastCheck).snap))
          => Val(mc.lastCheck).name = None
    /\ (tm.mounted /\ tm.lastResolve /= None /\ Val(tm.lastResolve).rbush = None)
          => /\ Val(tm.lastResolve).name = None
             /\ ~Val(tm.lastResolve).threw

\* TeraaMap's moveend called checkGeoJSONLocation while rbushRef.current was
\* null (the dataset failed to load) and went on to the Nominatim call
C15_Witness ==
    /\ tm.mounted
    /\ tm.lastResolve /= None
    /\ Val(tm.lastResolve).rbush = None
    /\ Val(tm.lastResolve).by = "moveend"
    /\ tm.fetches /= {}

\* MapComponent's map initialization called updateLocationDisplay before the
\* index was built
C15_WitnessMapComponent ==
    /\ mc.mounted
    /\ mc.lastCheck /= None
    /\ ~depsReady(Val(mc.lastCheck).snap)
    /\ mc.gmap

\* a feature of one of the five geometry types with coordinates, each a pair
Recognized(f) ==
    /\ f.type \in {"Point", "LineString", "MultiLineString", "Polygon", "MultiPolygon"}
    /\ AllCoords(f) /= <<>>
    /\ \A c \in SeqRange(AllCoords(f)) : Len(c) >= 2

\* C16 in MapComponent: after load and index build every such feature of the
\* dataset has an entry of the index at one of its coordinates
C16_MapComponent ==
    (mc.mounted /\ mc.geojsonData /= None /\ mc.isTurfLoaded /\ ~mc.effectsPending) =>
        \A k \in 1..Len(Val(mc.geojsonData)) :
            Recognized(Val(mc.geojsonData)[k]) =>
                /\ mc.spatialIndex /= None
                /\ \E id \in DOMAIN Val(mc.spatialIndex).index.ids :
                      EntryCoords(Val(mc.spatialIndex).index, id)
                          \in SeqRange(AllCoords(Val(mc.geojsonData)[k]))

\* C16 in MyMap: with the map centered on a coordinate of such a feature a
\* scan finds a feature
C16_MyMap ==
    MMScanned =>
        ((\E k \in 1..Len(Val(mm.features)) :
              /\ Recognized(Val(mm.features)[k])
              /\ <<Val(mm.lastScan).center.lng, Val(mm.lastScan).center.lat>>
                     \in SeqRange(AllCoords(Val(mm.features)[k])))
         => Val(mm.lastScan).result.kind = "found")

\* C16: every input feature of a recognized geometry type (Point, LineString,
\* MultiLineString, Polygon, MultiPolygon) with non-empty finite coordinates
\* is represented by at least one entry after load and index build, so that
\* a query point on the feature can return it.
C16_EveryFeatureRepresented == C16_MapComponent /\ C16_MyMap

\* C17 in TeraaMap: when a candidate without a name matches at the query
\* point and no named candidate does, the call answers with the placeholder
C17_TeraaMap ==
    TMResolved =>
        LET r == Val(tm.lastResolve)
            cands == RBushSearch(Val(r.rbush), searchBounds(r.lat, r.lng))
        IN  (/\ \E k \in 1..Len(cands) :
                   /\ cands[k].feature.name = ""
                   /\ featureMatches(cands[k].feature, r.lat, r.lng)
             /\ \A k \in 1..Len(cands) :
                   cands[k].feature.name /= ""
                       => ~featureMatches(cands[k].feature, r.lat, r.lng))
            => r.name = Some("unnamed")

\* C17 in MapComponent: when a candidate of stage 1 without a name is within
\* the distance and no named candidate is, the call answers with the placeholder
C17_MapComponent ==
    MCResolved =>
        LET r == Val(mc.lastCheck)
            si == Val(r.snap.spatialIndex)
            ids == SeqRange(rangeAround(si.index, r.lat, r.lng,
                                        searchRadiusDegreesForPoints))
            near == {id \in ids :
                        /\ featureMapGet(si.featureMap, id) /= None
                        /\ WithinPointKm(Dist2(<<r.lng, r.lat>>,
                               Val(featureMapGet(si.featureMap, id)).coordinates))}
        IN  (/\ near /= {}
             /\ \A id \in near : Val(featureMapGet(si.featureMap, id)).name = "")
            => r.name = Some("unnamed")

\* C17: a feature that has no name property stays eligible for proximity
\* matching and is reported under the placeholder name for unnamed features;
\* the resolver does not skip it.
C17_UnnamedPlaceholder == C17_TeraaMap /\ C17_MapComponent

\* the fraction r is the integer v
RatIs(r, v) == r.n = v * r.d
IsLatLng(r, a) == RatIs(r.lat, a.lat) /\ RatIs(r.lng, a.lng)

\* C18: closestPointOnSegment(p, a, b) returns a when the projection
\* parameter t is below 0, b when t is above 1, the point a + t (b - a) when
\* 0 <= t <= 1, and a when a equals b; with a = (0,0) and b = (10,0),
\* p = (-5,0) gives (0,0), p = (15,0) gives (10,0) and p = (5,2) gives (5,0).
C18_SegmentClamping ==
    cp.called =>
        LET p == cp.p
            a == cp.a
            b == cp.b
            r == Val(cp.result)
            len2 == (b.lng - a.lng) * (b.lng - a.lng) + (b.lat - a.lat) * (b.lat - a.lat)
            \* t = tn / len2
            tn == (p.lng - a.lng) * (b.lng - a.lng) + (p.lat - a.lat) * (b.lat - a.lat)
        IN  /\ a = b => IsLatLng(r, a)
            /\ (a /= b /\ tn < 0) => IsLatLng(r, a)
            /\ (a /= b /\ tn > len2) => IsLatLng(r, b)
            /\ (a /= b /\ 0 <= tn /\ tn <= len2) =>
                  /\ r.lng.n * len2 = (a.lng * len2 + tn * (b.lng - a.lng)) * r.lng.d
                  /\ r.lat.n * len2 = (a.lat * len2 + tn * (b.lat - a.lat)) * r.lat.d
            /\ (a = [lat |-> 0, lng |-> 0] /\ b = [lat |-> 0, lng |-> 10]) =>
                  /\ p = [lat |-> 0, lng |-> -5] => IsLatLng(r, [lat |-> 0, lng |-> 0])
                  /\ p = [lat |-> 0, lng |-> 15] => IsLatLng(r, [lat |-> 0, lng |-> 10])
                  /\ p = [lat |-> 2, lng |-> 5] => IsLatLng(r, [lat |-> 0, lng |-> 5])

\* the call with a = (0,0), b = (10,0), p = (15,0) answered b
C18_Witness ==
    /\ cp.called
    /\ cp.a = [lat |-> 0, lng |-> 0] /\ cp.b = [lat |-> 0, lng |-> 10]
    /\ cp.p = [lat |-> 0, lng |-> 15]
    /\ IsLatLng(Val(cp.result), cp.b)

\* a distance along a line as the list of the squared lengths it adds up,
\* without the empty ones: a last part of length 0 adds nothing, and a last
\* part that is a whole segment is that segment
DistanceTerms(t) ==
    SelectSeq([k \in 1..Len(t.whole) |-> Whole(t.whole[k])] \o <<t.part>>,
              LAMBDA r : r.n /= 0)

\* two such lists add up the same lengths
SameTerms(s, t) ==
    /\ Len(s) = Len(t)
    /\ \A k \in 1..Len(s) : ~RatLt(s[k], t[k]) /\ ~RatLt(t[k], s[k])

\* the segments (0-based) of path that hold the closest projection of q
ClosestSegments(q, path) ==
    {j \in 0..(Len(path) - 2) :
        \A o \in 0..(Len(path) - 2) :
            RatLe(SegDist2(q, path[j + 1], path[j + 2]),
                  SegDist2(q, path[o + 1], path[o + 2]))}

\* C19: the distance from the start reported for a matched line is the sum of
\* the lengths of the segments before the segment that holds the closest
\* projection of the query point, plus the distance from that segment's start
\* to the projection; a projection on a vertex is counted once.
C19_DistanceAlongLine ==
    (MMScanned /\ mm.variant = "search" /\ Val(mm.lastScan).result.kind = "found") =>
        LET q == <<Val(mm.lastScan).center.lng, Val(mm.lastScan).center.lat>>
            path == Val(mm.features)[Val(mm.lastScan).result.feature].coordinates
        IN  /\ mm.distanceFromStart /= None
            /\ \E j \in ClosestSegments(q, path) :
                  SameTerms(DistanceTerms(Val(mm.distanceFromStart)),
                            DistanceTerms(
                                [whole |-> [m \in 1..j |-> Dist2(path[m], path[m + 1])],
                                 part |-> AlongSegment2(q, path[j + 1], path[j + 2])]))

\* the polygons of data that contain q strictly, and among them the first of
\* those with the smallest area
ContainingPolygons(q, data) == {a \in 1..Len(data) : ContainsStrictly(q, data[a])}
SmallestContaining(q, data) ==
    MinOf([a \in {a \in ContainingPolygons(q, data) :
                     \A b \in ContainingPolygons(q, data) :
                         turfArea2(data[a]) <= turfArea2(data[b])} |-> a])

\* C20 for TeraaMap, whose candidates come in dataset order
C20_TeraaMap ==
    TMResolved =>
        LET q == <<Val(tm.lastResolve).lng, Val(tm.lastResolve).lat>>
            data == Val(Val(tm.lastResolve).geojson)
        IN  ContainingPolygons(q, data) /= {} =>
                Val(tm.lastResolve).name = Some(data[SmallestContaining(q, data)].name)

\* C20 for MapComponent
C20_MapComponent ==
    MCResolved =>
        LET q == <<Val(mc.lastCheck).lng, Val(mc.lastCheck).lat>>
            data == Val(Val(mc.lastCheck).snap.geojsonData)
        IN  ContainingPolygons(q, data) /= {} =>
                Val(mc.lastCheck).name = Some(data[SmallestContaining(q, data)].name)

\* C20: when polygons contain the query point, the resolver reports the one
\* with the smallest area, on equal areas the first of them in candidate
\* order, and it always reports a containing polygon when there is one.
C20_SmallestContainingPolygon ==
    /\ C20_TeraaMap
    /\ C20_MapComponent

\* C21: building a KDBush only reorders its entries: ids is a permutation of
\* 0..n-1, nothing dropped and nothing twice, and coords still holds the x and
\* y of every input point at 2i and 2i+1, duplicate coordinates included.
C21_BuildOnlyReorders ==
    IsSome(kd.index) =>
        LET n == Len(kd.points)
            ids == Val(kd.index).ids
            coords == Val(kd.index).coords
        IN  /\ DOMAIN ids = 0..(n - 1)
            /\ {ids[i] : i \in DOMAIN ids} = 0..(n - 1)
            /\ DOMAIN coords = 0..(2 * n - 1)
            /\ \A i \in 0..(n - 1) :
                  /\ coords[2 * i] = kd.points[i + 1].x
                  /\ coords[2 * i + 1] = kd.points[i + 1].y

\* a list long enough for two levels of select, with points that share both
\* coordinates, was indexed and its ids were reordered
C21_Witness ==
    /\ IsSome(kd.index)
    /\ Len(kd.points) > 2 * nodeSize
    /\ \E i, j \in 1..Len(kd.points) : i /= j /\ kd.points[i] = kd.points[j]
    /\ Val(kd.index).ids /= [i \in 0..(Len(kd.points) - 1) |-> i]

\* where a point lies with respect to a shape, from the shape's own geometry
StrictlyInside(shape, q) ==
    CASE shape = "square" -> 0 < q[1] /\ q[1] < 4 /\ 0 < q[2] /\ q[2] < 4
      [] shape = "triangle" -> 0 < q[1] /\ 0 < q[2] /\ q[1] + q[2] < 4
      [] shape = "ell" -> \/ 0 < q[1] /\ q[1] < 2 /\ 0 < q[2] /\ q[2] < 4
                          \/ 0 < q[1] /\ q[1] < 4 /\ 0 < q[2] /\ q[2] < 2
      [] OTHER -> FALSE
StrictlyOutside(shape, q) ==
    CASE shape = "square" -> q[1] < 0 \/ q[1] > 4 \/ q[2] < 0 \/ q[2] > 4
      [] shape = "triangle" -> q[1] < 0 \/ q[2] < 0 \/ q[1] + q[2] > 4
      [] shape = "ell" -> /\ ~(0 <= q[1] /\ q[1] <= 2 /\ 0 <= q[2] /\ q[2] <= 4)
                          /\ ~(0 <= q[1] /\ q[1] <= 4 /\ 0 <= q[2] /\ q[2] <= 2)
      [] OTHER -> TRUE

\* C22: isPointInPolygon answers true for a point strictly inside a simple
\* ring and false for a point strictly outside it, from whichever vertex and
\* in whichever orientation the ring is written, and false for the empty ring.
C22_PointInPolygon ==
    pp.called =>
        /\ StrictlyInside(pp.shape, pp.point) => Val(pp.result) = TRUE
        /\ StrictlyOutside(pp.shape, pp.point) => Val(pp.result) = FALSE
        /\ pp.polygon = <<>> => Val(pp.result) = FALSE

\* the concave ring, written clockwise from its inner corner, was asked for a
\* point inside it that is level with that corner
C22_Witness ==
    /\ pp.called
    /\ pp.polygon = <<<<2, 2>>, <<4, 2>>, <<4, 0>>, <<0, 0>>, <<0, 4>>, <<2, 4>>>>
    /\ pp.point = <<1, 2>>
    /\ Val(pp.result) = TRUE

\* C23: in MapComponent the initialized map and its center_changed listener
\* stay in place across map-type toggles: once a map was created and the
\* effects of the last render have run, the map state and the listener are
\* there, and every change of the center arms the debounced location update
\* for the new center.
C23_ToggleKeepsListener ==
    /\ []((mc.mounted /\ mc.gmap /\ ~mc.effectsPending) => (mc.map /\ mc.listener))
    /\ [][(mc.mounted /\ mc.gmap /\ mc'.mounted /\ mc'.center /= mc.center)
             => mc'.debounceTimeoutRef = Timeout(DEBOUNCE_DELAY_MS, mc'.center)]_vars

\* the latest run of the interval callback reported feature k as the nearby line
TickReported(k) ==
    /\ mm.mounted /\ mm.afterTick
    /\ mm.lastScan /= None
    /\ Val(mm.lastScan).result.kind = "found"
    /\ Val(mm.lastScan).result.feature = k

\* C24: in MyMap with search, whenever the periodic check has just reported a
\* nearby line F, F is styled red and highlightedFeatureRef.current is F,
\* whatever ticks, searches and resets came before.
C24_ReportedLineIsHighlighted ==
    (mm.mounted /\ mm.variant = "search" /\ mm.features /= None) =>
        \A k \in 1..Len(Val(mm.features)) :
            TickReported(k) =>
                /\ mm.style[k].strokeColor = "red"
                /\ mm.highlightedFeatureRef = Some(k)

\* C25: in MyMap with search, a feature of the current search results is red:
\* from handleSearch until resetSearchResults the periodic check leaves its
\* style alone, wherever the map center goes.
C25_SearchHighlightStays ==
    (mm.mounted /\ mm.variant = "search") =>
        \A i \in 1..Len(mm.searchResults) :
            mm.style[mm.searchResults[i]].strokeColor = "red"

\* the features that carry the red highlight
Highlighted == {k \in DOMAIN mm.style : mm.style[k].strokeColor = "red"}

\* C26: in the basic MyMap at most one feature carries the red highlight and
\* it is highlightedFeatureRef.current; after a tick on which no line is
\* within 20 m, no feature is highlighted and the ref is null.
C26_SingleHighlight ==
    (mm.mounted /\ mm.variant = "basic" /\ mm.features /= None) =>
        /\ Highlighted = (IF mm.highlightedFeatureRef = None THEN {}
                          ELSE {Val(mm.highlightedFeatureRef)})
        /\ (/\ mm.afterTick
            /\ \A k \in 1..Len(Val(mm.features)) :
                  Val(mm.features)[k].type = "LineString" =>
                      ~MMLineNear(<<mm.center.lng, mm.center.lat>>, Val(mm.features)[k]))
           => (Highlighted = {} /\ mm.highlightedFeatureRef = None)

\* q lies inside the exterior ring of polygon, or on it
Covers(q, polygon) ==
    /\ Len(polygon) >= 1
    /\ \/ RingCrossings(q[1], q[2], polygon[1]) % 2 = 1
       \/ \E i \in 1..(Len(polygon[1]) - 1) :
             SegDist2(q, polygon[1][i], polygon[1][i + 1]).n = 0

WellFormedLine(line) == Len(line) >= 2 /\ \A i \in 1..Len(line) : Len(line[i]) >= 2

\* the exact predicates of TeraaMap on a feature of the dataset: inside a
\* polygon, nearer than the tolerance to a line, nearer than 0.01 to a point
TMPasses(q, f) ==
    CASE f.type = "Polygon" -> Covers(q, f.coordinates)
      [] f.type = "MultiPolygon" ->
            \E k \in 1..Len(f.coordinates) : Covers(q, f.coordinates[k])
      [] f.type = "LineString" ->
            /\ WellFormedLine(f.coordinates)
            /\ NearerThan(Val(LineDist2From(q, f.coordinates, 1)), tolerance)
      [] f.type = "MultiLineString" ->
            \E k \in 1..Len(f.coordinates) :
                /\ WellFormedLine(f.coordinates[k])
                /\ NearerThan(Val(LineDist2From(q, f.coordinates[k], 1)), tolerance)
      [] f.type = "Point" ->
            /\ Len(f.coordinates) >= 2
            /\ calculateDistance2(q[2], q[1], f.coordinates[2], f.coordinates[1])
                   < pointRadiusDm * pointRadiusDm
      [] OTHER -> FALSE

\* the exact predicates of MapComponent: within MAX_DISTANCE_TO_POINT_KM of a
\* point, inside a polygon, within MAX_DISTANCE_TO_LINE_OR_EDGE_KM of a line
\* or of a polygon's edge
MCPasses(q, f) ==
    CASE f.type = "Point" ->
            Len(f.coordinates) >= 2 /\ WithinPointKm(Dist2(q, f.coordinates))
      [] IsPolygonal(f) ->
            \/ turfBooleanPointInPolygon(q, f)
            \/ /\ edgeDistance2(q, polygonExterior(f)) /= None
               /\ WithinLineKm(Val(edgeDistance2(q, polygonExterior(f))))
      [] f.type = "LineString" ->
            /\ WellFormedLine(f.coordinates)
            /\ WithinLineKm(Val(LineDist2From(q, f.coordinates, 1)))
      [] f.type = "MultiLineString" ->
            \E k \in 1..Len(f.coordinates) :
                /\ WellFormedLine(f.coordinates[k])
                /\ WithinLineKm(Val(LineDist2From(q, f.coordinates[k], 1)))
      [] OTHER -> FALSE

C27_TeraaMap ==
    (TMResolved /\ Val(tm.lastResolve).name /= None) =>
        \E k \in 1..Len(Val(Val(tm.lastResolve).geojson)) :
            /\ Val(Val(tm.lastResolve).geojson)[k].name = Val(Val(tm.lastResolve).name)
            /\ TMPasses(<<Val(tm.lastResolve).lng, Val(tm.lastResolve).lat>>,
                        Val(Val(tm.lastResolve).geojson)[k])

C27_MapComponent ==
    (MCResolved /\ Val(mc.lastCheck).name /= None) =>
        \E k \in 1..Len(Val(Val(mc.lastCheck).snap.geojsonData)) :
            /\ featureNameOrPlaceholder(Val(Val(mc.lastCheck).snap.geojsonData)[k])
                   = Val(Val(mc.lastCheck).name)
            /\ MCPasses(<<Val(mc.lastCheck).lng, Val(mc.lastCheck).lat>>,
                        Val(Val(mc.lastCheck).snap.geojsonData)[k])

\* C27: every name that checkPointInGeoJSON or checkGeoJSONLocation returns
\* is the name of a feature of the dataset that passes the exact predicate
\* for the query point; a candidate of the index that fails it is not
\* reported.
C27_ResolverSound ==
    /\ C27_TeraaMap
    /\ C27_MapComponent

\* TeraaMap resolved a name at a center where the index offered a candidate
\* that fails the exact predicate
C27_Witness ==
    /\ TMResolved
    /\ Val(tm.lastResolve).name = Some("C")
    /\ \E k \in 1..Len(Val(Val(tm.lastResolve).geojson)) :
          LET f == Val(Val(tm.lastResolve).geojson)[k]
              q == <<Val(tm.lastResolve).lng, Val(tm.lastResolve).lat>>
          IN  /\ f.type = "LineString"
              /\ \E i \in 1..Len(RBushSearch(Val(Val(tm.lastResolve).rbush),
                                             searchBounds(q[2], q[1]))) :
                    RBushSearch(Val(Val(tm.lastResolve).rbush),
                                searchBounds(q[2], q[1]))[i].feature = f
              /\ ~TMPasses(q, f)

\* C28: the last call of a burst is not dropped: once call n of the throttled
\* function has been made, either call n + 1 arrives or func is executed with
\* the arguments of call n.
C28_TrailingCall ==
    \A n \in 1..MaxCalls :
        (tt.called /\ tt.calls = n)
            ~> (tt.calls > n \/ (tt.exec /= None /\ Val(tt.exec).n = n))

\* the third call of a burst, the second to be put off, was executed by the
\* timeout
C28_Witness ==
    /\ tt.called
    /\ tt.calls = 3 /\ tt.deferred = 2
    /\ tt.exec /= None /\ Val(tt.exec).n = 3
    /\ tt.th.inThrottle = None

\* C29: the promise of loadExternalScript is resolved, and once: pollForGlobal
\* polls again at most maxAttempts times, intervalTime apart, sets the loaded
\* state to true only on seeing the global object, and to false only on a
\* script error or when the last attempt failed.
C29_PromiseResolvesOnce ==
    /\ [](/\ le.resolves <= 1
          /\ le.repolls <= maxAttempts
          /\ le.lastWait \in {None, Some(intervalTime)}
          /\ (le.loaded = Some(TRUE) => (le.sawGlobal /\ le.global))
          /\ (le.loaded = Some(FALSE) =>
                 (le.errored \/ (le.gaveUp /\ le.repolls = maxAttempts)))
          /\ (le.resolves = 1 => (le.loaded /= None /\ le.timer = None)))
    /\ le.called ~> (le.resolves = 1)

\* the script loaded, the global object never came, and the promise was
\* resolved with the loaded state false after the last poll
C29_Witness ==
    /\ le.called /\ le.script = "present" /\ ~le.global
    /\ le.repolls = maxAttempts /\ le.attempts = maxAttempts
    /\ le.loaded = Some(FALSE) /\ le.resolves = 1

\* `last' records the handler that ran in the step into the state
\* a handleSearch of TeraaMap has just found a feature of a supported type
SearchFound ==
    /\ sp.called /\ sp.last.op = "search" /\ sp.last.found /= None
    /\ Val(sp.last.found).type \in SupportedTypes

\* C30: in TeraaMap a handleSearch that finds a feature of a supported
\* geometry type (Point, LineString, MultiLineString, Polygon, MultiPolygon)
\* does not raise, the render that derives highlightedCoords does not raise,
\* and the coordinates shown for the result (highlightedCoords, and
\* searchResultInfo where the map is there) are one [lat, lng] pair.
C30_SearchAnyGeometry ==
    SearchFound =>
        /\ ~sp.raised /\ ~sp.crashed
        /\ sp.highlightedCoords /= None =>
              Val(sp.highlightedCoords).nesting = 1
        /\ (sp.map /\ Val(sp.last.found).coordinates /= <<>>) =>
              /\ sp.searchResultInfo /= None
              /\ sp.highlightedCoords /= None
              /\ Val(sp.searchResultInfo).coordinates = Val(sp.highlightedCoords).value
              /\ Len(Val(sp.highlightedCoords).value) = 2

====
